---- MODULE Spec2Model ----
(***************************************************************************)
(* Platform-period stock screening: the filter manager of the refactor     *)
(* plan (FilterManager.run_filters), the multi-window aggregation, the     *)
(* scan job, and the scan/poll flow of the web client                      *)
(* (fetchPlatformStocks / startPolling).                                   *)
(***************************************************************************)
EXTENDS Integers, Sequences, FiniteSets, TLC

(***************************************************************************)
(* Bounds of the model.                                                    *)
(***************************************************************************)
NumFilters == 3     \* filter names that can be registered
NumWindows == 2     \* configured window sizes of one stock analysis
NumStocks == 3      \* stocks in the universe of one scan
MaxScans == 3       \* scans submitted in one behaviour
MaxInFlight == 2    \* poll responses in flight at a time

VARIABLES
  \* FilterManager
  filters,          \* self.filters: registration-ordered <<[name, enabled]>>
  df,               \* the window under analysis: what each filter's analyze returns
  filter_results,   \* self.filter_results: <<[name, result]>> in evaluation order
  judgment_log,     \* self.judgment_log
  ret,              \* the dict returned by the last run_filters
  call,             \* the manager's filters and the kwargs of that run_filters call
  \* window aggregation of one stock
  series,           \* window -> what each filter's analyze returns on that slice
  window_verdicts,  \* WindowVerdict of the windows analysed so far
  selection_reasons,\* the windows that passed
  is_candidate,     \* "unknown" until every window is analysed, then "yes" / "no"
  \* scan jobs of the server
  universe,         \* the stock universe: what classifying each stock yields
  jobs,             \* task id -> ScanJob
  \* the client (refs of the page)
  loading,
  error,
  taskError,
  platformStocks,
  taskStatus,       \* "null", "pending", "running", "completed", "failed"
  taskProgress,
  taskMessage,
  currentTaskId,    \* 0 is null
  pollingInterval,  \* the id setInterval returned, 0 is null
  \* the browser and the network
  timers,           \* active intervals: [id, task]
  timersCreated,    \* ids handed out by setInterval
  post,             \* the POSTs to /api/scan/start that are awaited
  responses,        \* answers to GET /api/scan/status/{task} not yet delivered
  scans,            \* fetchPlatformStocks calls that passed the loading guard
  \* the scan form (config and the refs next to it)
  windowsInput,     \* config.windowsInput: the comma-separated entries
  showCustomWindowInput,
  windowWeights,    \* windowWeights: window -> slider value
  window_weights,   \* config.window_weights: window -> normalized weight
  use_window_weights,
  box_threshold,    \* the thresholds, in hundredths
  ma_diff_threshold,
  volatility_threshold,
  payload,          \* the payload of the last POST /api/scan/start, <<>> if none
  lastHandler,      \* the form handler that ran last
  \* a chart component (KlineChart or FullKlineChart)
  chart,            \* which component it is
  klineDates,       \* the dates of props.klineData, the date axis
  markLines,        \* props.markLines
  optionMarkLines,  \* the markLines that setOptions hands to the chart
  rendered,         \* setOptions has run
  \* a stock's analysis on its way to the chart (App or CaseDetail)
  analysisData,     \* the stock / analysisData object
  generatedBy,      \* the component whose generateMarkLines ran, "none" before
  generated,        \* what generateMarkLines returned
  levelsBy,         \* the component whose level getters ran, "none" before
  supportLevels,    \* what getSupportLevels returned
  resistanceLevels, \* what getResistanceLevels returned
  \* run_filters invocations running in parallel on one FilterManager
  heap,             \* the dicts and lists created so far, by object id
  results_ref,      \* self.filter_results: the id of the dict it refers to
  log_ref,          \* self.judgment_log: the id of the list it refers to
  inv,              \* per invocation: position, arguments, locals, return value
  \* the scan and retry buttons
  ignoredClicks,    \* fetchPlatformStocks calls that returned at the loading guard
  \* the full-chart dialog (FullKlineChart)
  visible,          \* props.visible
  chartInstance,    \* the id of the echarts instance it refers to, 0 is null
  echartsInstances, \* by id: "live" or "disposed"
  dialogTimers,     \* pending setTimeout callbacks in the order set: [kind, due]
  clock,            \* the time, in units of 100 ms
  \* the pagination of the result list
  currentPage,
  pageSize          \* a number, or the string the select delivers

fvars == <<filters, df, filter_results, judgment_log, ret, call>>
avars == <<series, window_verdicts, selection_reasons, is_candidate>>
svars == <<universe, jobs>>
cvars == <<loading, error, taskError, platformStocks, taskStatus, taskProgress,
           taskMessage, currentTaskId, pollingInterval>>
evars == <<timers, timersCreated, post, responses, scans>>
gvars == <<windowsInput, showCustomWindowInput, windowWeights, window_weights,
           use_window_weights, box_threshold, ma_diff_threshold,
           volatility_threshold, payload, lastHandler>>
kvars == <<chart, klineDates, markLines, optionMarkLines, rendered>>
mvars == <<analysisData, generatedBy, generated, levelsBy, supportLevels, resistanceLevels>>
pvars == <<heap, results_ref, log_ref, inv>>
bvars == <<ignoredClicks>>
dvars == <<visible, chartInstance, echartsInstances, dialogTimers, clock>>
qvars == <<currentPage, pageSize>>
yvars == <<bvars, dvars, qvars>>
xvars == <<gvars, kvars, mvars, pvars, yvars>>
vars == <<fvars, avars, svars, cvars, evars, xvars>>

(***************************************************************************)
(* StockFilter and FilterManager                                           *)
(***************************************************************************)
FilterNames == 1..NumFilters

\* the dict a filter's analyze returns; "passed" may be missing from it
AnalyzeResults == {[passed |-> TRUE], [passed |-> FALSE], [reason |-> "no verdict"]}

\* the **kwargs of run_filters; "short_circuit" may be missing from them
Kwargs == {[short_circuit |-> TRUE], [short_circuit |-> FALSE], [window |-> 0]}

\* filter_instance.analyze(df, **kwargs)
analyze(name, d) == d[name]

is_enabled_inverted(f) == ~f.enabled

\* StockFilter.is_enabled
is_enabled(f) == f.enabled

\* result.get("passed", True)
get_passed(result) ==
  IF "passed" \in DOMAIN result THEN result.passed ELSE TRUE

\* kwargs.get("short_circuit", True)
get_short_circuit(kwargs) ==
  IF "short_circuit" \in DOMAIN kwargs THEN kwargs.short_circuit ELSE TRUE

and_passed_last_wins(is_platform, passed) == passed

\* is_platform = is_platform and passed
and_passed(is_platform, passed) == is_platform /\ passed

should_break_never(is_platform, kwargs) == FALSE

should_break_any(is_platform, kwargs) == get_short_circuit(kwargs)

\* if not is_platform and kwargs.get("short_circuit", True): break
should_break(is_platform, kwargs) == ~is_platform /\ get_short_circuit(kwargs)

LogLine(name, text) == [name |-> name, text |-> text]

\* the for loop of run_filters over self.filters.items(), from filter fs[1] on
RECURSIVE run_loop(_, _, _, _, _, _)
run_loop(fs, d, kwargs, is_platform, results, log) ==
  IF fs = <<>>
  THEN [is_platform |-> is_platform, filter_results |-> results, judgment_log |-> log]
  ELSE
    LET f == Head(fs) IN
    IF is_enabled(f)
    THEN
      LET result == analyze(f.name, d)
          passed == get_passed(result)
          ip == and_passed(is_platform, passed)
          res1 == Append(results, [name |-> f.name, result |-> result])
          log1 == Append(log, LogLine(f.name, IF passed THEN "passed" ELSE "not passed"))
      IN IF should_break(ip, kwargs)
         THEN [is_platform |-> ip, filter_results |-> res1,
               judgment_log |-> Append(log1, LogLine(0, "early exit (short circuit)"))]
         ELSE run_loop(Tail(fs), d, kwargs, ip, res1, log1)
    ELSE run_loop(Tail(fs), d, kwargs, is_platform, results,
                  Append(log, LogLine(f.name, "disabled (auto pass)")))

\* FilterManager.run_filters: the returned dict
run_filters(fs, d, kwargs) ==
  LET r == run_loop(fs, d, kwargs, TRUE, <<>>, <<LogLine(0, "start")>>) IN
  [is_platform |-> r.is_platform,
   filter_results |-> r.filter_results,
   judgment_log |-> Append(r.judgment_log,
       LogLine(0, IF r.is_platform THEN "final: platform" ELSE "final: not platform"))]

NameIndex(fs, name) ==
  IF \E i \in 1..Len(fs) : fs[i].name = name
  THEN CHOOSE i \in 1..Len(fs) : fs[i].name = name
  ELSE 0

\* FilterManager.__init__
NoCall == [is_platform |-> TRUE, filter_results |-> <<>>, judgment_log |-> <<>>]
NoArgs == [filters |-> <<>>, kwargs |-> [window |-> 0]]

\* FilterManager.add_filter: a dict assignment, a registered name keeps its place.
\* Names are registered in the order 1, 2, ... (they are labels).
add_filter(name, enabled) ==
  /\ name \in FilterNames
  /\ name <= Len(filters) + 1
  /\ LET i == NameIndex(filters, name)
         inst == [name |-> name, enabled |-> enabled]
     IN filters' = IF i = 0 THEN Append(filters, inst)
                    ELSE [filters EXCEPT ![i] = inst]
  /\ UNCHANGED <<df, filter_results, judgment_log, ret, call>>
  /\ UNCHANGED <<avars, svars, cvars, evars, xvars>>

\* manager.get_filter(name).set_enabled(enabled)
set_enabled(name, enabled) ==
  /\ NameIndex(filters, name) # 0
  /\ filters[NameIndex(filters, name)].enabled # enabled
  /\ filters' = [filters EXCEPT ![NameIndex(filters, name)].enabled = enabled]
  /\ UNCHANGED <<df, filter_results, judgment_log, ret, call>>
  /\ UNCHANGED <<avars, svars, cvars, evars, xvars>>

\* manager.run_filters(df, **kwargs) on the window under analysis
RunFilters(kwargs) ==
  /\ filters # <<>>
  /\ LET r == run_filters(filters, df, kwargs) IN
     /\ filter_results' = r.filter_results
     /\ judgment_log' = r.judgment_log
     /\ ret' = r
     /\ call' = [filters |-> filters, kwargs |-> kwargs]
  /\ UNCHANGED <<filters, df>>
  /\ UNCHANGED <<avars, svars, cvars, evars, xvars>>

AddFilter == \E name \in FilterNames, enabled \in BOOLEAN : add_filter(name, enabled)
SetEnabled == \E name \in FilterNames, enabled \in BOOLEAN : set_enabled(name, enabled)
RunFiltersCall == \E kwargs \in Kwargs : RunFilters(kwargs)

(***************************************************************************)
(* Window aggregation of one stock (analyze_stock): the pipeline runs once *)
(* per configured window, the windows are OR-combined.                     *)
(***************************************************************************)
Windows == 1..NumWindows

PassFail == {[passed |-> TRUE], [passed |-> FALSE]}

\* every filter registered, each with its own switch
FilterConfigs ==
  {[i \in FilterNames |-> [name |-> i, enabled |-> e[i]]] : e \in [FilterNames -> BOOLEAN]}

is_overall_candidate_all(verdicts) ==
  \A i \in 1..Len(verdicts) : verdicts[i].passed

\* a stock is a candidate if at least one window's verdict passed
is_overall_candidate(verdicts) ==
  \E i \in 1..Len(verdicts) : verdicts[i].passed

\* WindowVerdict of one window
WindowVerdict(w, r) ==
  [window |-> w, passed |-> r.is_platform,
   filter_results |-> r.filter_results, judgment_log |-> r.judgment_log]

\* the pipeline on the next configured window
AnalyzeWindow ==
  /\ Len(window_verdicts) < NumWindows
  /\ LET w == Len(window_verdicts) + 1
         r == run_filters(filters, series[w], [window |-> w])
     IN /\ window_verdicts' = Append(window_verdicts, WindowVerdict(w, r))
        /\ selection_reasons' =
             IF r.is_platform THEN selection_reasons \cup {w} ELSE selection_reasons
  /\ UNCHANGED <<series, is_candidate>>
  /\ UNCHANGED <<fvars, svars, cvars, evars, xvars>>

\* every window analysed: the stock is a candidate or not
FinishStock ==
  /\ Len(window_verdicts) = NumWindows
  /\ is_candidate = "unknown"
  /\ is_candidate' = IF is_overall_candidate(window_verdicts) THEN "yes" ELSE "no"
  /\ UNCHANGED <<series, window_verdicts, selection_reasons>>
  /\ UNCHANGED <<fvars, svars, cvars, evars, xvars>>

(***************************************************************************)
(* The scan job of the server: pending -> running -> completed | failed.   *)
(* One stock is classified per step; a stock whose classification raises   *)
(* is skipped and logged.                                                  *)
(***************************************************************************)
Stocks == 1..NumStocks
Outcomes == {"candidate", "rejected", "error"}

\* submit(config, universe): the job is created in pending
NewJob ==
  [status |-> "pending", processed |-> 0, result |-> <<>>, skipped |-> {},
   error |-> "None"]

\* progress = processed / total * 100
job_progress(job) ==
  IF job.status = "completed" THEN 100 ELSE (job.processed * 100) \div NumStocks

classify_stock_fail_fast(job, stock, outcome) ==
  IF outcome = "error"
  THEN [job EXCEPT !.status = "failed", !.error = "stock error"]
  ELSE [job EXCEPT !.processed = stock,
                   !.result = IF outcome = "candidate" THEN Append(@, stock) ELSE @]

\* the per-stock boundary: one stock is classified; a stock that raises is
\* skipped and logged
classify_stock(job, stock, outcome) ==
  [job EXCEPT !.processed = stock,
              !.result = IF outcome = "candidate" THEN Append(@, stock) ELSE @,
              !.skipped = IF outcome = "error" THEN @ \cup {stock} ELSE @]

\* what GET /api/scan/status/{task_id} answers: result only if completed,
\* error only if failed
job_snapshot(id, job) ==
  LET base == [task_id |-> id, status |-> job.status,
               progress |-> job_progress(job), message |-> job.status]
  IN IF job.status = "completed"
     THEN [task_id |-> id, status |-> job.status, progress |-> job_progress(job),
           message |-> job.status, result |-> job.result]
     ELSE IF job.status = "failed"
     THEN [task_id |-> id, status |-> job.status, progress |-> job_progress(job),
           message |-> job.status, error |-> job.error]
     ELSE base

\* the orchestrator begins processing
JobStart(id) ==
  /\ jobs[id].status = "pending"
  /\ jobs' = [jobs EXCEPT ![id].status = "running"]
  /\ UNCHANGED <<universe, fvars, avars, cvars, evars, xvars>>

JobClassifyStock(id) ==
  /\ jobs[id].status = "running"
  /\ jobs[id].processed < NumStocks
  /\ jobs' = [jobs EXCEPT ![id] = classify_stock(@, @.processed + 1, universe[@.processed + 1])]
  /\ UNCHANGED <<universe, fvars, avars, cvars, evars, xvars>>

\* normal completion
JobComplete(id) ==
  /\ jobs[id].status = "running"
  /\ jobs[id].processed = NumStocks
  /\ jobs' = [jobs EXCEPT ![id].status = "completed"]
  /\ UNCHANGED <<universe, fvars, avars, cvars, evars, xvars>>

\* unrecoverable error (universe unavailable, cancellation)
JobFail(id) ==
  /\ jobs[id].status = "running"
  /\ jobs' = [jobs EXCEPT ![id].status = "failed", ![id].error = "fatal"]
  /\ UNCHANGED <<universe, fvars, avars, cvars, evars, xvars>>

\* submit without the web client
SubmitJob ==
  /\ Len(jobs) < MaxScans
  /\ jobs' = Append(jobs, NewJob)
  /\ UNCHANGED <<universe, fvars, avars, cvars, evars, xvars>>

JobIds == 1..Len(jobs)
JobStarts == \E id \in JobIds : JobStart(id)
JobClassifies == \E id \in JobIds : JobClassifyStock(id)
JobCompletes == \E id \in JobIds : JobComplete(id)
JobFails == \E id \in JobIds : JobFail(id)

(***************************************************************************)
(* The client: fetchPlatformStocks and startPolling                        *)
(***************************************************************************)
ConfigChecks == {"valid", "no windows", "box_threshold out of range"}

\* fetchPlatformStocks up to the await of the POST: the resets, the validation
FetchPlatformStocks(check) ==
  /\ ~loading
  /\ scans < MaxScans
  /\ scans' = scans + 1
  /\ taskError' = "None"
  /\ platformStocks' = <<>>
  /\ taskProgress' = 0
  /\ taskMessage' = "preparing"
  /\ IF check = "valid"
     THEN /\ loading' = TRUE
          /\ error' = "None"
          /\ taskStatus' = "pending"
          /\ post' = post + 1
     ELSE /\ loading' = FALSE
          /\ error' = check
          /\ taskStatus' = "null"
          /\ post' = post
  /\ UNCHANGED <<currentTaskId, pollingInterval, timers, timersCreated, responses>>
  /\ UNCHANGED <<fvars, avars, svars>>

\* the POST answered with a task id: the job exists, startPolling(task id)
PostAccepted ==
  /\ post > 0
  /\ post' = post - 1
  /\ jobs' = Append(jobs, NewJob)
  /\ currentTaskId' = Len(jobs) + 1
  /\ taskMessage' = "started"
  /\ taskStatus' = "running"
  \* startPolling: clearInterval(pollingInterval.value), then setInterval
  /\ timersCreated' = timersCreated + 1
  /\ pollingInterval' = timersCreated + 1
  /\ timers' = {t \in timers : t.id # pollingInterval}
                 \cup {[id |-> timersCreated + 1, task |-> Len(jobs) + 1]}
  /\ UNCHANGED <<loading, error, taskError, platformStocks, taskProgress,
                 responses, scans, universe>>
  /\ UNCHANGED <<fvars, avars, xvars>>

PostRejected_keeps_pending(reason) ==
  /\ post > 0
  /\ post' = post - 1
  /\ error' = reason
  /\ loading' = FALSE
  /\ UNCHANGED <<taskStatus, taskError, platformStocks, taskProgress, taskMessage,
                 currentTaskId, pollingInterval, timers, timersCreated,
                 responses, scans>>
  /\ UNCHANGED <<fvars, avars, svars, xvars>>

\* the POST answered without a task id, or failed: the catch block
PostRejected(reason) ==
  /\ post > 0
  /\ post' = post - 1
  /\ error' = reason
  /\ loading' = FALSE
  /\ taskStatus' = "null"
  /\ UNCHANGED <<taskError, platformStocks, taskProgress, taskMessage,
                 currentTaskId, pollingInterval, timers, timersCreated,
                 responses, scans>>
  /\ UNCHANGED <<fvars, avars, svars, xvars>>

PostRejectReasons == {"no task id", "request failed", "server error"}

\* an answer on its way to the client; two answers that say the same are
\* told apart by their copy number
in_flight(answer) ==
  LET copies == {c \in 1..MaxInFlight : [answer EXCEPT !.copy = c] \in responses}
  IN [answer EXCEPT !.copy = Cardinality(copies) + 1]

\* a tick of the interval: GET /api/scan/status/{taskId} is sent and answered
\* with the job as it is; the answer is delivered later, in any order
PollTick(t) ==
  /\ t \in timers
  /\ Cardinality(responses) < MaxInFlight
  /\ responses' = responses \cup {in_flight([kind |-> "data", copy |-> 1,
                                               data |-> job_snapshot(t.task, jobs[t.task])])}
  /\ UNCHANGED <<timers, timersCreated, post, scans>>
  /\ UNCHANGED <<fvars, avars, svars, cvars, xvars>>

\* a tick whose GET fails
PollTickFails(t) ==
  /\ t \in timers
  /\ Cardinality(responses) < MaxInFlight
  /\ responses' = responses \cup {in_flight([kind |-> "failure", copy |-> 1, task_id |-> t.task])}
  /\ UNCHANGED <<timers, timersCreated, post, scans>>
  /\ UNCHANGED <<fvars, avars, svars, cvars, xvars>>

\* clearInterval(pollingInterval.value)
clearInterval(ts, id) == {t \in ts : t.id # id}

\* the interval callback after its await, on the answer taskData
PollResponse(r) ==
  /\ r \in responses
  /\ r.kind = "data"
  /\ responses' = responses \ {r}
  /\ LET taskData == r.data IN
     /\ taskStatus' = taskData.status
     /\ taskProgress' = taskData.progress
     /\ taskMessage' = taskData.message
     /\ IF taskData.status = "completed"
        THEN /\ timers' = clearInterval(timers, pollingInterval)
             /\ loading' = FALSE
             /\ IF "result" \in DOMAIN taskData
                THEN platformStocks' = taskData.result /\ error' = error
                ELSE error' = "no valid data" /\ platformStocks' = platformStocks
             /\ taskError' = taskError
        ELSE IF taskData.status = "failed"
        THEN /\ timers' = clearInterval(timers, pollingInterval)
             /\ loading' = FALSE
             /\ taskError' = taskData.error
             /\ UNCHANGED <<platformStocks, error>>
        ELSE UNCHANGED <<timers, loading, taskError, platformStocks, error>>
  /\ UNCHANGED <<currentTaskId, pollingInterval, timersCreated, post, scans>>
  /\ UNCHANGED <<fvars, avars, svars, xvars>>

\* the interval callback's catch: polling goes on
PollError(r) ==
  /\ r \in responses
  /\ r.kind = "failure"
  /\ responses' = responses \ {r}
  /\ UNCHANGED <<timers, timersCreated, post, scans>>
  /\ UNCHANGED <<fvars, avars, svars, cvars, xvars>>

Fetches == \E check \in ConfigChecks : FetchPlatformStocks(check) /\ UNCHANGED xvars
PostRejects == \E reason \in PostRejectReasons : PostRejected(reason)
PollTicks == \E t \in timers : PollTick(t)
PollTickFailures == \E t \in timers : PollTickFails(t)
PollResponses == \E r \in responses : PollResponse(r)
PollErrors == \E r \in responses : PollError(r)

(***************************************************************************)
(* The scan form: windows, window weights, thresholds                      *)
(***************************************************************************)
MaxEntries == 2
\* One comma-separated entry of windowsInput, by what parseInt makes of it:
\* lead is the integer its leading digits spell (absent when there are none),
\* junk says that other characters follow or stand alone ("30abc", "abc", "")
Entry(n) == [lead |-> n, junk |-> FALSE]
EntryJunk(n) == [lead |-> n, junk |-> TRUE]
EntryText == [junk |-> TRUE]

\* parseInt(w.trim(), 10)
parse_int(w) == IF "lead" \in DOMAIN w
                THEN [nan |-> FALSE, value |-> w.lead]
                ELSE [nan |-> TRUE]

\* w => !isNaN(w) && w > 0
keep_window(p) == ~p.nan /\ p.value > 0

\* windowsInput.split(',').map(parseInt).filter(...)
parse_windows(input) ==
  LET parsed == [i \in 1..Len(input) |-> parse_int(input[i])]
      kept == SelectSeq(parsed, keep_window)
  IN [i \in 1..Len(kept) |-> kept[i].value]

\* windows.join(',')
join_windows(windows) == [i \in 1..Len(windows) |-> Entry(windows[i])]

SeqRange(q) == {q[i] : i \in 1..Len(q)}

\* the default weight given to a window that has none yet
DefaultWeight == 5

\* parsedWindows' forEach: windowWeights[window] = 5 where undefined
init_weights(ww, windows) ==
  [k \in DOMAIN ww \cup SeqRange(windows) |->
     IF k \in DOMAIN ww THEN ww[k] ELSE DefaultWeight]

\* the computed parsedWindows, read off the current windowsInput
parsedWindows == parse_windows(windowsInput)

RECURSIVE sum_weights(_, _)
sum_weights(ww, keys) ==
  IF keys = {} THEN 0
  ELSE LET k == CHOOSE x \in keys : TRUE
       IN ww[k] + sum_weights(ww, keys \ {k})

weight_keys_all(ww, windows) == DOMAIN ww
\* the entries of windowWeights that updateWindowWeights counts
weight_keys(ww, windows) == DOMAIN ww \cap SeqRange(windows)

\* the empty object {}
NoWeights == [k \in {} |-> [num |-> 0, den |-> 1]]

\* the second half of updateWindowWeights: weights[key] = value / total when
\* total > 0, an empty object otherwise. A weight is the fraction num/den.
normalize(ww, keys, total) ==
  IF total > 0
  THEN [k \in keys |-> [num |-> ww[k], den |-> total]]
  ELSE NoWeights

\* updateWindowWeights' value for config.window_weights
normalized_weights(ww, windows) ==
  LET keys == weight_keys(ww, windows)
  IN normalize(ww, keys, sum_weights(ww, keys))

\* windowPresets: the standard and the mid-term preset
PresetStandard == <<Entry(80), Entry(100), Entry(120)>>
PresetMidTerm == <<Entry(30), Entry(60), Entry(90)>>
windowPresets == {PresetStandard, PresetMidTerm}

\* selectWindowPreset(preset)
selectWindowPreset(preset) ==
  /\ windowsInput' = preset
  /\ showCustomWindowInput' = FALSE
  /\ windowWeights' = init_weights(windowWeights, parse_windows(preset))
  /\ window_weights' = normalized_weights(windowWeights', parse_windows(preset))
  /\ lastHandler' = "selectWindowPreset"
  /\ UNCHANGED <<use_window_weights, box_threshold, ma_diff_threshold,
                 volatility_threshold, payload>>
  /\ UNCHANGED <<fvars, avars, svars, cvars, evars, kvars, mvars, pvars, yvars>>

\* the custom button: showCustomWindowInput = true
ShowCustomInput ==
  /\ ~showCustomWindowInput
  /\ showCustomWindowInput' = TRUE
  /\ lastHandler' = "showCustomWindowInput"
  /\ UNCHANGED <<windowsInput, windowWeights, window_weights,
                 use_window_weights, box_threshold, ma_diff_threshold,
                 volatility_threshold, payload>>
  /\ UNCHANGED <<fvars, avars, svars, cvars, evars, kvars, mvars, pvars, yvars>>

\* typing into the custom input (v-model on config.windowsInput); the
\* re-evaluation of parsedWindows gives the new windows their default weight
EditWindowsInput(text) ==
  /\ showCustomWindowInput
  /\ text # windowsInput
  /\ windowsInput' = text
  /\ windowWeights' = init_weights(windowWeights, parse_windows(text))
  /\ lastHandler' = "windowsInput"
  /\ UNCHANGED <<showCustomWindowInput, window_weights, use_window_weights,
                 box_threshold, ma_diff_threshold, volatility_threshold,
                 payload>>
  /\ UNCHANGED <<fvars, avars, svars, cvars, evars, kvars, mvars, pvars, yvars>>

\* validateCustomWindows, the confirm button of the custom input
validateCustomWindows ==
  /\ showCustomWindowInput
  /\ LET windows == parse_windows(windowsInput) IN
     IF windows = <<>>
     THEN /\ windowsInput' = PresetMidTerm
          /\ windowWeights' = init_weights(windowWeights, parse_windows(PresetMidTerm))
          /\ lastHandler' = "validateCustomWindows: reset"
          /\ UNCHANGED <<showCustomWindowInput, window_weights>>
     ELSE /\ windowsInput' = join_windows(windows)
          /\ showCustomWindowInput' = FALSE
          /\ windowWeights' = init_weights(windowWeights, windows)
          /\ window_weights' = normalized_weights(windowWeights', windows)
          /\ lastHandler' = "validateCustomWindows"
  /\ UNCHANGED <<use_window_weights, box_threshold, ma_diff_threshold,
                 volatility_threshold, payload>>
  /\ UNCHANGED <<fvars, avars, svars, cvars, evars, kvars, mvars, pvars, yvars>>

\* the weight slider of a configured window: updateWindowWeights(window, value)
updateWindowWeights(window, value) ==
  /\ use_window_weights
  /\ window \in SeqRange(parsedWindows)
  /\ windowWeights' = [windowWeights EXCEPT ![window] = value]
  /\ window_weights' = normalized_weights(windowWeights', parsedWindows)
  /\ lastHandler' = "updateWindowWeights"
  /\ UNCHANGED <<windowsInput, showCustomWindowInput, use_window_weights,
                 box_threshold, ma_diff_threshold, volatility_threshold,
                 payload>>
  /\ UNCHANGED <<fvars, avars, svars, cvars, evars, kvars, mvars, pvars, yvars>>

\* the checkbox bound to config.use_window_weights
ToggleWindowWeights ==
  /\ use_window_weights' = ~use_window_weights
  /\ lastHandler' = "use_window_weights"
  /\ UNCHANGED <<windowsInput, showCustomWindowInput, windowWeights,
                 window_weights, box_threshold, ma_diff_threshold,
                 volatility_threshold, payload>>
  /\ UNCHANGED <<fvars, avars, svars, cvars, evars, kvars, mvars, pvars, yvars>>

ThresholdNames == {"box_threshold", "ma_diff_threshold", "volatility_threshold"}

\* typing into one of the threshold inputs (v-model.number), in hundredths
EditThreshold(name, value) ==
  /\ box_threshold' = IF name = "box_threshold" THEN value ELSE box_threshold
  /\ ma_diff_threshold' = IF name = "ma_diff_threshold" THEN value ELSE ma_diff_threshold
  /\ volatility_threshold' = IF name = "volatility_threshold" THEN value ELSE volatility_threshold
  /\ <<box_threshold', ma_diff_threshold', volatility_threshold'>>
       # <<box_threshold, ma_diff_threshold, volatility_threshold>>
  /\ lastHandler' = "threshold"
  /\ UNCHANGED <<windowsInput, showCustomWindowInput, windowWeights,
                 window_weights, use_window_weights, payload>>
  /\ UNCHANGED <<fvars, avars, svars, cvars, evars, kvars, mvars, pvars, yvars>>

\* what the custom input is given: valid sizes, a negative size, digits
\* followed by letters, and text without digits
CustomEntries == {Entry(30), Entry(60), Entry(-5), EntryJunk(30), EntryText}
CustomInputs == UNION {[1..n -> CustomEntries] : n \in 1..MaxEntries}
\* the bounds of the open interval and beyond are what the inputs are given
ThresholdValues == {0, 100}

\* what the weight form is given: one window, the same window twice, a window
\* beside an invalid entry, and text without digits
WeightInputs == {<<Entry(60)>>, <<Entry(60), Entry(60)>>, <<Entry(60), Entry(-5)>>, <<EntryText>>}
\* the ends of the slider (min 0, max 10)
SliderValues == {0, 10}

SelectPresets == \E preset \in windowPresets : selectWindowPreset(preset)
EditWeightInputs == \E text \in WeightInputs : EditWindowsInput(text)
Sliders == \E window \in SeqRange(parsedWindows), value \in SliderValues : updateWindowWeights(window, value)

EditInputs == \E text \in CustomInputs : EditWindowsInput(text)
EditThresholds == \E name \in ThresholdNames, value \in ThresholdValues : EditThreshold(name, value)

\* the validation of fetchPlatformStocks
config_check ==
  IF Len(parsedWindows) = 0 THEN "no windows"
  ELSE IF box_threshold <= 0 \/ box_threshold >= 100 THEN "box_threshold out of range"
  ELSE "valid"

\* the payload of the POST, as far as the form decides it
scan_payload ==
  [windows |-> parsedWindows,
   box_threshold |-> box_threshold,
   ma_diff_threshold |-> ma_diff_threshold,
   volatility_threshold |-> volatility_threshold,
   use_window_weights |-> use_window_weights,
   window_weights |-> window_weights]

\* the scan button: fetchPlatformStocks on the form as it stands
FetchConfigured ==
  /\ FetchPlatformStocks(config_check)
  /\ payload' = IF config_check = "valid" THEN <<scan_payload>> ELSE payload
  /\ lastHandler' = "fetchPlatformStocks"
  /\ UNCHANGED <<windowsInput, showCustomWindowInput, windowWeights,
                 window_weights, use_window_weights, box_threshold,
                 ma_diff_threshold, volatility_threshold>>
  /\ UNCHANGED <<kvars, mvars, pvars, yvars>>

(***************************************************************************)
(* The charts: findDateIndex and the mark lines of setOptions              *)
(***************************************************************************)
MaxAxis == 2
MaxMarks == 1

\* A date string by its parts: 'YYYY-MM-DD' (sep "-"), 'Y/M/D' without padding
\* (sep "/"), either with a time after a blank, or text that is no date
DateStr(y, m, d) ==
  [kind |-> "date", y |-> y, m |-> m, d |-> d, sep |-> "-", time |-> FALSE, text |-> ""]
SlashDate(y, m, d) == [DateStr(y, m, d) EXCEPT !.sep = "/"]
WithTime(s) == [s EXCEPT !.time = TRUE]
TextStr(t) ==
  [kind |-> "text", y |-> 0, m |-> 0, d |-> 0, sep |-> "", time |-> FALSE, text |-> t]
EmptyStr == TextStr("")

\* s.split(' ')[0]
date_part(s) == [s EXCEPT !.time = FALSE]

\* 'Y/M/D' rewritten as 'YYYY-MM-DD' with padStart(2, '0')
slash_to_dash(s) == IF s.kind = "date" /\ s.sep = "/" THEN [s EXCEPT !.sep = "-"] ELSE s

\* s.length of a string without a time
str_length(s) ==
  LET Digits(n) == IF n >= 10 THEN 2 ELSE 1
  IN IF s.kind = "text" THEN Len(s.text)
     ELSE IF s.sep = "-" THEN 10
     ELSE 4 + 1 + Digits(s.m) + 1 + Digits(s.d)

\* current.startsWith(s), for current a 'YYYY-MM-DD' of the axis
starts_with(current, s) ==
  IF s.kind = "text" THEN s.text = ""
  ELSE s.sep = "-" /\ current.y = s.y /\ current.m = s.m /\ current.d = s.d
\* current.startsWith(s.substring(0, 7))
starts_with_year_month(current, s) ==
  s.kind = "date" /\ s.sep = "-" /\ current.y = s.y /\ current.m = s.m
\* current.startsWith(s.substring(0, 4))
starts_with_year(current, s) == s.kind = "date" /\ current.y = s.y

\* new Date(s).getTime(), in days; text does not parse
timestamp(s) ==
  LET IsLeap(y) == (y % 4 = 0 /\ y % 100 # 0) \/ y % 400 = 0
      DaysBeforeMonth == <<0, 31, 59, 90, 120, 151, 181, 212, 243, 273, 304, 334>>
  IN IF s.kind = "text" THEN [nan |-> TRUE]
     ELSE [nan |-> FALSE,
           value |-> 365 * s.y + ((s.y - 1) \div 4) - ((s.y - 1) \div 100) + ((s.y - 1) \div 400)
                     + DaysBeforeMonth[s.m] + (IF IsLeap(s.y) /\ s.m > 2 THEN 1 ELSE 0) + s.d]

\* the first index (from 0) at which a date of the array matches, -1 if none;
\* matches[i] says whether the i-th date does
first_index(matches) ==
  IF \E i \in 1..Len(matches) : matches[i]
  THEN (CHOOSE i \in 1..Len(matches) :
          matches[i] /\ \A j \in 1..(i - 1) : ~matches[j]) - 1
  ELSE -1

\* the loop that keeps the first date of the smallest distance to the target
closest_index(target, dateArray) ==
  LET Abs(n) == IF n < 0 THEN -n ELSE n
      diff(i) == Abs(target - timestamp(date_part(dateArray[i])).value)
      valid == {i \in 1..Len(dateArray) : ~timestamp(date_part(dateArray[i])).nan}
  IN IF valid = {} THEN -1
     ELSE (CHOOSE i \in valid :
             /\ \A j \in valid : diff(j) >= diff(i)
             /\ \A j \in valid : j < i => diff(j) > diff(i)) - 1

find_by_parts_year_first(dateStr, dateArray) ==
  LET yearMonth == IF str_length(dateStr) >= 7
                   THEN first_index([i \in 1..Len(dateArray) |->
                                       starts_with_year_month(date_part(dateArray[i]), dateStr)])
                   ELSE -1
      year == IF str_length(dateStr) >= 4
              THEN first_index([i \in 1..Len(dateArray) |->
                                  starts_with_year(date_part(dateArray[i]), dateStr)])
              ELSE -1
      targetTimestamp == timestamp(dateStr)
  IN IF year # -1 THEN year
     ELSE IF yearMonth # -1 THEN yearMonth
     ELSE IF ~targetTimestamp.nan THEN closest_index(targetTimestamp.value, dateArray)
     ELSE -1

\* the tiers that the two findDateIndex share: year and month, year, nearest
find_by_parts(dateStr, dateArray) ==
  LET yearMonth == IF str_length(dateStr) >= 7
                   THEN first_index([i \in 1..Len(dateArray) |->
                                       starts_with_year_month(date_part(dateArray[i]), dateStr)])
                   ELSE -1
      year == IF str_length(dateStr) >= 4
              THEN first_index([i \in 1..Len(dateArray) |->
                                  starts_with_year(date_part(dateArray[i]), dateStr)])
              ELSE -1
      targetTimestamp == timestamp(dateStr)
  IN IF yearMonth # -1 THEN yearMonth
     ELSE IF year # -1 THEN year
     ELSE IF ~targetTimestamp.nan THEN closest_index(targetTimestamp.value, dateArray)
     ELSE -1

\* KlineChart's findDateIndex(targetDate, dateArray); indexes count from 0
findDateIndex(targetDate, dateArray) ==
  IF targetDate = EmptyStr THEN -1
  ELSE LET dateStr == slash_to_dash(date_part(targetDate))
           exact == first_index([i \in 1..Len(dateArray) |-> date_part(dateArray[i]) = dateStr])
       IN IF exact # -1 THEN exact ELSE find_by_parts(dateStr, dateArray)

\* FullKlineChart's findDateIndex(targetDate, dateArray)
findDateIndexFull(targetDate, dateArray) ==
  LET exactIndex == first_index([i \in 1..Len(dateArray) |-> dateArray[i] = targetDate])
      dateOnly == date_part(targetDate)
      dateOnlyIndex == first_index([i \in 1..Len(dateArray) |-> starts_with(dateArray[i], dateOnly)])
  IN IF exactIndex # -1 THEN exactIndex
     ELSE IF dateOnlyIndex # -1 THEN dateOnlyIndex
     ELSE find_by_parts(dateOnly, dateArray)

\* a mark of props.markLines
VerticalMark(date, text) == [type |-> "vertical", date |-> date, text |-> text, value |-> 0]
HorizontalMark(value, text) == [type |-> "horizontal", date |-> EmptyStr, text |-> text, value |-> value]

\* Math.floor(dates.length / 2)
middle_index(n) == n \div 2

\* what the forEach of setOptions pushes for one mark, dateIndex being what
\* findDateIndex makes of its date: nothing for a mark without a date, the
\* line at the index found, else the line in the middle of the axis with the
\* text marked as estimated
pushed(mark, dates, dateIndex) ==
  IF mark.type = "horizontal"
  THEN <<[name |-> mark.text, axis |-> "y", at |-> mark.value, estimated |-> FALSE]>>
  ELSE IF mark.date = EmptyStr THEN <<>>
  ELSE IF dateIndex # -1
  THEN <<[name |-> mark.text, axis |-> "x", at |-> dateIndex, estimated |-> FALSE]>>
  ELSE <<[name |-> mark.text, axis |-> "x", at |-> middle_index(Len(dates)), estimated |-> TRUE]>>

RECURSIVE Flatten(_)
Flatten(seqs) == IF seqs = <<>> THEN <<>> ELSE Head(seqs) \o Flatten(Tail(seqs))

\* props.markLines.forEach(...): the pushes of the marks, in their order
mark_lines(marks, dates, dateIndexes) ==
  Flatten([i \in 1..Len(marks) |-> pushed(marks[i], dates, dateIndexes[i])])

\* KlineChart's setOptions, as far as the mark lines go
setOptions ==
  /\ chart = "KlineChart"
  /\ ~rendered
  /\ optionMarkLines' =
       mark_lines(markLines, klineDates,
                  [i \in 1..Len(markLines) |-> findDateIndex(markLines[i].date, klineDates)])
  /\ rendered' = TRUE
  /\ UNCHANGED <<chart, klineDates, markLines>>
  /\ UNCHANGED <<fvars, avars, svars, cvars, evars, gvars, mvars, pvars, yvars>>

\* FullKlineChart's setOptions, as far as the mark lines go
setOptionsFull ==
  /\ chart = "FullKlineChart"
  /\ ~rendered
  /\ optionMarkLines' =
       mark_lines(markLines, klineDates,
                  [i \in 1..Len(markLines) |-> findDateIndexFull(markLines[i].date, klineDates)])
  /\ rendered' = TRUE
  /\ UNCHANGED <<chart, klineDates, markLines>>
  /\ UNCHANGED <<fvars, avars, svars, cvars, evars, gvars, mvars, pvars, yvars>>

\* the dates of the k-line data: two years, two months, two days
AxisDates == {DateStr(y, m, d) : y \in {2023, 2024}, m \in {1, 2}, d \in {5, 20}}
\* the dates in ascending order, as the k-line data has them
Ascending(dates) ==
  \A i, j \in 1..Len(dates) : i < j => timestamp(dates[i]).value < timestamp(dates[j]).value
Axes == {dates \in UNION {[1..n -> AxisDates] : n \in 0..MaxAxis} : Ascending(dates)}

\* the dates of marks: dates of the axis' range and beyond it, with a time,
\* with slashes, text that is no date, and no date at all
MarkDates ==
  AxisDates \cup {DateStr(2025, 3, 9)}
  \cup {WithTime(DateStr(2024, 1, 5)), WithTime(SlashDate(2024, 2, 20))}
  \cup {SlashDate(2024, 1, 5), SlashDate(2024, 2, 20), SlashDate(2022, 11, 20)}
  \cup {TextStr("abc"), TextStr("not-a-date"), EmptyStr}
Marks == {VerticalMark(date, "high") : date \in MarkDates} \cup {HorizontalMark(7, "support")}
MarkLists == UNION {[1..n -> Marks] : n \in 0..MaxMarks}

(***************************************************************************)
(* generateMarkLines of the App and of CaseDetail                          *)
(***************************************************************************)
\* an object that may be missing: <<>> when it is, <<object>> when it is there
Missing == <<>>
Some(object) == <<object>>
The(option) == option[1]

\* a mark; its text is "high point", "decline start", "platform start" or
\* "breakthrough"
Mark(date, text) == [date |-> date, text |-> text]
\* if (date) markLines.push({date, text, color}); "" is no date
push_if(date, text) == IF date # "" THEN <<Mark(date, text)>> ELSE <<>>

\* the three pushes from a decline object: high point, decline start, platform start
push_decline(details) ==
  push_if(details.high_date, "high point")
  \o push_if(details.rapid_decline_start_date, "decline start")
  \o push_if(details.rapid_decline_end_date, "platform start")

\* the App's generateMarkLines(stock)
generateMarkLines(s) ==
  IF s.mark_lines # <<>> THEN s.mark_lines
  ELSE IF s.markLines # <<>> THEN s.markLines
  ELSE
    (IF s.position_analysis # Missing /\ The(s.position_analysis).details # Missing
     THEN push_if(The(The(s.position_analysis).details).high_date, "high point")
     ELSE <<>>)
    \o (IF s.decline_details # Missing
        THEN push_if(The(s.decline_details).rapid_decline_start_date, "decline start")
             \o push_if(The(s.decline_details).rapid_decline_end_date, "platform start")
        ELSE <<>>)
    \o (IF s.breakthrough_analysis # Missing /\ The(s.breakthrough_analysis).has_breakthrough_signal
        THEN push_if(The(s.breakthrough_analysis).breakthrough_date, "breakthrough")
        ELSE <<>>)
    \o (IF s.decline_analysis # Missing THEN push_decline(The(s.decline_analysis)) ELSE <<>>)
    \o (IF s.position_details # Missing
        THEN push_if(The(s.position_details).high_date, "high point")
        ELSE <<>>)
    \o (IF s.decline_details # Missing THEN push_decline(The(s.decline_details)) ELSE <<>>)

\* markLines.some(m => m.date === date && m.text === text)
has_mark(lines, date, text) ==
  \E i \in 1..Len(lines) : lines[i].date = date /\ lines[i].text = text

\* CaseDetail's generateMarkLines() on analysisData
generateMarkLinesCase(s) ==
  IF s.mark_lines # <<>> THEN s.mark_lines
  ELSE
    LET position ==
          IF s.position_analysis # Missing /\ The(s.position_analysis).details # Missing
          THEN push_if(The(The(s.position_analysis).details).high_date, "high point")
          ELSE <<>>
        decline ==
          IF s.decline_details # Missing
          THEN (IF ~has_mark(position, The(s.decline_details).high_date, "high point")
                THEN push_if(The(s.decline_details).high_date, "high point")
                ELSE <<>>)
               \o push_if(The(s.decline_details).rapid_decline_start_date, "decline start")
               \o push_if(The(s.decline_details).rapid_decline_end_date, "platform start")
          ELSE <<>>
        breakthrough ==
          IF s.breakthrough_analysis # Missing /\ The(s.breakthrough_analysis).has_breakthrough_signal
          THEN push_if(The(s.breakthrough_analysis).breakthrough_date, "breakthrough")
          ELSE <<>>
        pushes == position \o decline \o breakthrough
    IN IF pushes = <<>> /\ s.decline_details # Missing
       THEN push_decline(The(s.decline_details))
       ELSE pushes

\* the App draws a stock's chart
GenerateMarkLines ==
  /\ generatedBy = "none"
  /\ generatedBy' = "App"
  /\ generated' = generateMarkLines(analysisData)
  /\ UNCHANGED <<analysisData, levelsBy, supportLevels, resistanceLevels>>
  /\ UNCHANGED <<fvars, avars, svars, cvars, evars, gvars, kvars, pvars, yvars>>

\* CaseDetail draws a case's chart
GenerateMarkLinesCase ==
  /\ generatedBy = "none"
  /\ generatedBy' = "CaseDetail"
  /\ generated' = generateMarkLinesCase(analysisData)
  /\ UNCHANGED <<analysisData, levelsBy, supportLevels, resistanceLevels>>
  /\ UNCHANGED <<fvars, avars, svars, cvars, evars, gvars, kvars, pvars, yvars>>

\* the dates an analysis reports; "" when it reports none
AnalysisDates == {"", "2024-01-05", "2024-02-20"}
DeclineObjects ==
  {Missing} \cup
  {Some([high_date |-> h, rapid_decline_start_date |-> b, rapid_decline_end_date |-> e]) :
     h \in AnalysisDates, b \in {"", "2024-01-10"}, e \in {"", "2024-01-30"}}
PositionObjects == {Missing} \cup {Some([high_date |-> h]) : h \in AnalysisDates}
MarkStocks ==
  [mark_lines : {<<>>, <<Mark("2024-01-05", "high point")>>},
   markLines : {<<>>, <<Mark("2024-01-05", "high point")>>},
   position_analysis : {Missing} \cup {Some([details |-> d]) : d \in PositionObjects},
   decline_details : DeclineObjects,
   breakthrough_analysis : {Missing} \cup
     {Some([has_breakthrough_signal |-> b, breakthrough_date |-> "2024-03-01"]) : b \in BOOLEAN},
   decline_analysis : {Missing, Some([high_date |-> "2024-01-05", rapid_decline_start_date |-> "",
                                      rapid_decline_end_date |-> ""])},
   position_details : PositionObjects]

(***************************************************************************)
(* getSupportLevels and getResistanceLevels of the App and of CaseDetail   *)
(***************************************************************************)
MaxDetailWindows == 2

\* a JavaScript value of a levels field: undefined, a number, or an array
Undefined == [type |-> "undefined", value |-> 0, items |-> <<>>]
Num(n) == [type |-> "number", value |-> n, items |-> <<>>]
Arr(items) == [type |-> "array", value |-> 0, items |-> items]

\* levels || []
or_empty_array(levels) ==
  IF levels.type = "undefined" \/ (levels.type = "number" /\ levels.value = 0)
  THEN Arr(<<>>)
  ELSE levels

\* the first window of details that has a box_analysis, 0 if none
first_box_window(details) ==
  IF \E i \in 1..Len(details) : details[i].box_analysis # Missing
  THEN CHOOSE i \in 1..Len(details) :
         details[i].box_analysis # Missing
         /\ \A j \in 1..(i - 1) : details[j].box_analysis = Missing
  ELSE 0

\* the App's getSupportLevels / getResistanceLevels, field being the one read
get_levels(s, field) ==
  IF s = Missing THEN Arr(<<>>)
  ELSE IF The(s).box_analysis # Missing THEN or_empty_array(The(The(s).box_analysis)[field])
  ELSE IF The(s).details = Missing THEN Arr(<<>>)
  ELSE LET details == The(The(s).details)
           window == first_box_window(details)
       IN IF window # 0
          THEN or_empty_array(The(details[window].box_analysis)[field])
          ELSE Arr(<<>>)

\* Array.isArray(levels) or typeof levels === 'number'
is_list_or_number(levels) == levels.type \in {"array", "number"}
\* return levels, or [level] for a single number
as_list(levels) == IF levels.type = "number" THEN Arr(<<levels.value>>) ELSE levels

\* the first window of details whose box_analysis has the field as a list or
\* a number, 0 if none
first_levels_window(details, field) ==
  LET has(i) == details[i].box_analysis # Missing
                /\ is_list_or_number(The(details[i].box_analysis)[field])
  IN IF \E i \in 1..Len(details) : has(i)
     THEN CHOOSE i \in 1..Len(details) : has(i) /\ \A j \in 1..(i - 1) : ~has(j)
     ELSE 0

\* what CaseDetail's getters share: box_analysis, then the windows of details;
\* fallback is what the getter returns when neither has the levels
get_levels_case(s, field, fallback) ==
  IF s = Missing THEN Arr(<<>>)
  ELSE IF The(s).box_analysis # Missing /\ is_list_or_number(The(The(s).box_analysis)[field])
  THEN as_list(The(The(s).box_analysis)[field])
  ELSE LET details == IF The(s).details = Missing THEN <<>> ELSE The(The(s).details)
           window == first_levels_window(details, field)
       IN IF window # 0
          THEN as_list(The(details[window].box_analysis)[field])
          ELSE fallback

\* a level a little under the low of the day the platform starts (low * 0.98);
\* prices are in hundredths
support_fallback(s) ==
  IF The(s).decline_details # Missing
     /\ The(The(s).decline_details).rapid_decline_end_date # ""
     /\ The(s).end_date_low # 0
  THEN Arr(<<(The(s).end_date_low * 98) \div 100>>)
  ELSE Arr(<<>>)

\* 90% of the high price
resistance_fallback(s) ==
  IF The(s).decline_details # Missing /\ The(The(s).decline_details).high_price # 0
  THEN Arr(<<(The(The(s).decline_details).high_price * 90) \div 100>>)
  ELSE Arr(<<>>)

\* the App binds the levels of a stock to the chart
GetLevels ==
  /\ levelsBy = "none"
  /\ levelsBy' = "App"
  /\ supportLevels' = get_levels(analysisData, "support_levels")
  /\ resistanceLevels' = get_levels(analysisData, "resistance_levels")
  /\ UNCHANGED <<analysisData, generatedBy, generated>>
  /\ UNCHANGED <<fvars, avars, svars, cvars, evars, gvars, kvars, pvars, yvars>>

\* CaseDetail binds the levels of a case to the chart
GetLevelsCase ==
  /\ levelsBy = "none"
  /\ levelsBy' = "CaseDetail"
  /\ supportLevels' =
       get_levels_case(analysisData, "support_levels",
                       IF analysisData = Missing THEN Arr(<<>>) ELSE support_fallback(analysisData))
  /\ resistanceLevels' =
       get_levels_case(analysisData, "resistance_levels",
                       IF analysisData = Missing THEN Arr(<<>>) ELSE resistance_fallback(analysisData))
  /\ UNCHANGED <<analysisData, generatedBy, generated>>
  /\ UNCHANGED <<fvars, avars, svars, cvars, evars, gvars, kvars, pvars, yvars>>

\* the levels a box analysis holds: none, a single level, lists
SupportValues == {Undefined, Num(705), Num(0), Arr(<<>>), Arr(<<705>>), Arr(<<717, 705>>)}
ResistanceValues == {Undefined, Num(758), Arr(<<766, 758>>)}
BoxAnalyses ==
  {Missing} \cup {Some([support_levels |-> sl, resistance_levels |-> rl]) :
                    sl \in SupportValues, rl \in ResistanceValues}
WindowBoxAnalyses ==
  {Missing} \cup {Some([support_levels |-> sl, resistance_levels |-> Arr(<<766>>)]) :
                    sl \in {Undefined, Num(690), Arr(<<690, 700>>)}}
WindowDetails ==
  UNION {[1..n -> [box_analysis : WindowBoxAnalyses]] : n \in 1..MaxDetailWindows}
\* end_date_low is the low of the k-line on rapid_decline_end_date, 0 when
\* the k-line data has no such date
LevelStocks ==
  {Missing} \cup
  {Some(s) : s \in
     [box_analysis : BoxAnalyses,
      details : {Missing} \cup {Some(d) : d \in WindowDetails},
      decline_details : {Missing} \cup
        {Some([rapid_decline_end_date |-> e, high_price |-> h]) :
           e \in {"", "2024-01-30"}, h \in {0, 1000}},
      end_date_low : {0, 700}]}

(***************************************************************************)
(* run_filters invocations interleaved on one FilterManager                *)
(***************************************************************************)
NumInvocations == 2
Invocations == 1..NumInvocations

\* an entry of a judgment_log or of a filter_results dict; by is the
\* invocation that wrote it
Entry_(by, name, value) == [by |-> by, name |-> name, value |-> value]

\* dict[name] = value: a key that is there keeps its place
dict_set(dict, entry) ==
  IF \E i \in 1..Len(dict) : dict[i].name = entry.name
  THEN [i \in 1..Len(dict) |-> IF dict[i].name = entry.name THEN entry ELSE dict[i]]
  ELSE Append(dict, entry)

\* an invocation that has not been called; it has returned nothing
IdleInvocation ==
  [pc |-> "idle", df |-> [n \in FilterNames |-> [passed |-> TRUE]], kwargs |-> [window |-> 0],
   is_platform |-> TRUE, next |-> 0,
   returned |-> [is_platform |-> TRUE, filter_results |-> 0, judgment_log |-> 0]]

\* manager.run_filters(df, **kwargs) is called
Call(t, d, kwargs) ==
  /\ inv[t].pc = "idle"
  /\ inv' = [inv EXCEPT ![t] = [@ EXCEPT !.pc = "reset", !.df = d, !.kwargs = kwargs]]
  /\ UNCHANGED <<heap, results_ref, log_ref>>
  /\ UNCHANGED <<fvars, avars, svars, cvars, evars, gvars, kvars, mvars, yvars>>

\* self.filter_results = {}; self.judgment_log = []
ResetState(t) ==
  /\ inv[t].pc = "reset"
  /\ heap' = heap \o <<<<>>, <<>>>>
  /\ results_ref' = Len(heap) + 1
  /\ log_ref' = Len(heap) + 2
  /\ inv' = [inv EXCEPT ![t].pc = "begin"]
  /\ UNCHANGED <<fvars, avars, svars, cvars, evars, gvars, kvars, mvars, yvars>>

\* is_platform = True; self.judgment_log.append(start)
Begin(t) ==
  /\ inv[t].pc = "begin"
  /\ heap' = [heap EXCEPT ![log_ref] = Append(@, Entry_(t, 0, "start"))]
  /\ inv' = [inv EXCEPT ![t] = [@ EXCEPT !.is_platform = TRUE, !.next = 1,
                                         !.pc = IF filters = <<>> THEN "finish" ELSE "loop"]]
  /\ UNCHANGED <<results_ref, log_ref>>
  /\ UNCHANGED <<fvars, avars, svars, cvars, evars, gvars, kvars, mvars, yvars>>

\* one round of the for loop over self.filters.items()
Iterate(t) ==
  /\ inv[t].pc = "loop"
  /\ LET f == filters[inv[t].next]
         result == analyze(f.name, inv[t].df)
         passed == get_passed(result)
         ip == and_passed(inv[t].is_platform, passed)
         last == inv[t].next = Len(filters)
     IN IF is_enabled(f)
        THEN /\ heap' = [heap EXCEPT
                  ![results_ref] = dict_set(@, Entry_(t, f.name, result)),
                  ![log_ref] =
                     Append(@, Entry_(t, f.name, IF passed THEN "passed" ELSE "not passed"))
                     \o (IF should_break(ip, inv[t].kwargs)
                         THEN <<Entry_(t, 0, "early exit (short circuit)")>>
                         ELSE <<>>)]
             /\ inv' = [inv EXCEPT ![t] =
                  [@ EXCEPT !.is_platform = ip, !.next = @ + 1,
                            !.pc = IF should_break(ip, inv[t].kwargs) \/ last
                                   THEN "finish" ELSE "loop"]]
        ELSE /\ heap' = [heap EXCEPT
                  ![log_ref] = Append(@, Entry_(t, f.name, "disabled (auto pass)"))]
             /\ inv' = [inv EXCEPT ![t] =
                  [@ EXCEPT !.next = @ + 1, !.pc = IF last THEN "finish" ELSE "loop"]]
  /\ UNCHANGED <<results_ref, log_ref>>
  /\ UNCHANGED <<fvars, avars, svars, cvars, evars, gvars, kvars, mvars, yvars>>

\* the final line of the log, the result dict built and returned
Finish(t) ==
  /\ inv[t].pc = "finish"
  /\ heap' = [heap EXCEPT ![log_ref] =
       Append(@, Entry_(t, 0, IF inv[t].is_platform THEN "final: platform"
                                                     ELSE "final: not platform"))]
  /\ inv' = [inv EXCEPT ![t] =
       [@ EXCEPT !.pc = "done",
                 !.returned = [is_platform |-> inv[t].is_platform,
                               filter_results |-> results_ref,
                               judgment_log |-> log_ref]]]
  /\ UNCHANGED <<results_ref, log_ref>>
  /\ UNCHANGED <<fvars, avars, svars, cvars, evars, gvars, kvars, mvars, yvars>>

\* the stocks evaluated in parallel: one passes every filter, one fails every filter
ParallelDfs == {[n \in FilterNames |-> [passed |-> b]] : b \in BOOLEAN}
\* the manager's filters: all enabled, or the first one disabled
ParallelFilters ==
  {[i \in FilterNames |-> [name |-> i, enabled |-> (i > 1 \/ e)]] : e \in BOOLEAN}

Calls == \E t \in Invocations, d \in ParallelDfs, kwargs \in Kwargs : Call(t, d, kwargs)
ResetStates == \E t \in Invocations : ResetState(t)
Begins == \E t \in Invocations : Begin(t)
Iterates == \E t \in Invocations : Iterate(t)
Finishes == \E t \in Invocations : Finish(t)

(***************************************************************************)
(* The scan and retry buttons while a scan is in progress                  *)
(***************************************************************************)
MaxIgnoredClicks == 2

\* fetchPlatformStocks called while loading: if (loading.value) return
FetchWhileLoading ==
  /\ loading
  /\ ignoredClicks < MaxIgnoredClicks
  /\ ignoredClicks' = ignoredClicks + 1
  /\ UNCHANGED <<fvars, avars, svars, cvars, evars, gvars, kvars, mvars, pvars, dvars, qvars>>

(***************************************************************************)
(* The full-chart dialog: the watchers of props.visible                    *)
(***************************************************************************)
MaxClock == 6          \* the time a behaviour covers, in units of 100 ms
MaxPendingTimers == 3  \* setTimeout callbacks pending at a time

\* the delays of the two setTimeout, in units of 100 ms
InitDelay == 1
DisposeDelay == 3

\* the place in dialogTimers of the callback that runs next: the first one due
NextDue ==
  IF \E i \in 1..Len(dialogTimers) : dialogTimers[i].due <= clock
  THEN CHOOSE i \in 1..Len(dialogTimers) :
         /\ dialogTimers[i].due <= clock
         /\ \A j \in 1..(i - 1) : dialogTimers[j].due > clock
  ELSE 0

remove_at(q, i) == SubSeq(q, 1, i - 1) \o SubSeq(q, i + 1, Len(q))

\* chartInstance.dispose()
dispose(instances, id) == [instances EXCEPT ![id] = "disposed"]

\* the App's openFullChart: showFullChart = true; the first watcher of
\* props.visible schedules initChart
OpenFullChart ==
  /\ ~visible
  /\ Len(dialogTimers) < MaxPendingTimers
  /\ visible' = TRUE
  /\ dialogTimers' = Append(dialogTimers, [kind |-> "init", due |-> clock + InitDelay])
  /\ UNCHANGED <<chartInstance, echartsInstances, clock>>
  /\ UNCHANGED <<fvars, avars, svars, cvars, evars, gvars, kvars, mvars, pvars, bvars, qvars>>

\* close(): update:visible false; the second watcher of props.visible
\* schedules the dispose
CloseFullChart ==
  /\ visible
  /\ Len(dialogTimers) < MaxPendingTimers
  /\ visible' = FALSE
  /\ dialogTimers' = Append(dialogTimers, [kind |-> "dispose", due |-> clock + DisposeDelay])
  /\ UNCHANGED <<chartInstance, echartsInstances, clock>>
  /\ UNCHANGED <<fvars, avars, svars, cvars, evars, gvars, kvars, mvars, pvars, bvars, qvars>>

\* the init callback: initChart(). The container chartRef exists while the
\* dialog is visible (v-if); an instance still referred to is disposed first
initChart ==
  /\ NextDue # 0
  /\ dialogTimers[NextDue].kind = "init"
  /\ dialogTimers' = remove_at(dialogTimers, NextDue)
  /\ IF ~visible
     THEN UNCHANGED <<chartInstance, echartsInstances>>
     ELSE LET old == IF chartInstance # 0 THEN dispose(echartsInstances, chartInstance)
                     ELSE echartsInstances
          IN /\ echartsInstances' = Append(old, "live")
             /\ chartInstance' = Len(echartsInstances) + 1
  /\ UNCHANGED <<visible, clock>>
  /\ UNCHANGED <<fvars, avars, svars, cvars, evars, gvars, kvars, mvars, pvars, bvars, qvars>>

\* the dispose callback: if (chartInstance) { dispose(); chartInstance = null }
disposeChart ==
  /\ NextDue # 0
  /\ dialogTimers[NextDue].kind = "dispose"
  /\ dialogTimers' = remove_at(dialogTimers, NextDue)
  /\ IF chartInstance # 0
     THEN /\ echartsInstances' = dispose(echartsInstances, chartInstance)
          /\ chartInstance' = 0
     ELSE UNCHANGED <<chartInstance, echartsInstances>>
  /\ UNCHANGED <<visible, clock>>
  /\ UNCHANGED <<fvars, avars, svars, cvars, evars, gvars, kvars, mvars, pvars, bvars, qvars>>

\* 100 ms pass; a callback that is due runs before more time passes
TimePasses ==
  /\ NextDue = 0
  /\ clock < MaxClock
  /\ clock' = clock + 1
  /\ UNCHANGED <<visible, chartInstance, echartsInstances, dialogTimers>>
  /\ UNCHANGED <<fvars, avars, svars, cvars, evars, gvars, kvars, mvars, pvars, bvars, qvars>>

(***************************************************************************)
(* The pagination of the result list                                       *)
(***************************************************************************)
MaxResults == 21   \* stocks in the result list

\* a page size: the number 10 of ref(10), or the string that v-model puts
\* into pageSize from <option value="5">
NumberSize(n) == [type |-> "number", value |-> n]
StringSize(n) == [type |-> "string", value |-> n]
DefaultPageSize == NumberSize(10)
SelectSizes == {StringSize(5), StringSize(10), StringSize(20)}

\* the number of decimal digits of a page size
size_digits(n) == IF n >= 10 THEN 2 ELSE 1
pow10(k) == IF k = 2 THEN 100 ELSE 10

\* Math.ceil(platformStocks.length / pageSize): the division makes a number
\* of either page size
total_pages(stocks, size) == (Len(stocks) + size.value - 1) \div size.value

\* (currentPage - 1) * pageSize: the product makes a number of either
slice_start(page, size) == (page - 1) * size.value

\* start + pageSize: the sum of two numbers, or, for a string page size, the
\* digits of start followed by the string, which slice reads as a number
slice_end(start, size) ==
  IF size.type = "number" THEN start + size.value
  ELSE start * pow10(size_digits(size.value)) + size.value

\* stocks.slice(start, end), indexes from 0
slice(stocks, start, end) ==
  LET to == IF end < Len(stocks) THEN end ELSE Len(stocks)
  IN IF start >= to THEN <<>> ELSE SubSeq(stocks, start + 1, to)

\* the computed paginatedStocks for a page
paginated_stocks(stocks, page, size) ==
  slice(stocks, slice_start(page, size), slice_end(slice_start(page, size), size))

totalPages == total_pages(platformStocks, pageSize)
paginatedStocks == paginated_stocks(platformStocks, currentPage, pageSize)

\* goToPage(page)
goToPage(page) ==
  /\ page >= 1 /\ page <= totalPages
  /\ currentPage' = page
  /\ UNCHANGED pageSize
  /\ UNCHANGED <<fvars, avars, svars, cvars, evars, gvars, kvars, mvars, pvars, bvars, dvars>>

\* nextPage()
nextPage == currentPage < totalPages /\ goToPage(currentPage + 1)

\* prevPage()
prevPage == currentPage > 1 /\ goToPage(currentPage - 1)

\* a choice in the page-size select: v-model stores the option's value, then
\* @change calls changePageSize(pageSize)
changePageSize(size) ==
  /\ size # pageSize
  /\ pageSize' = size
  /\ currentPage' = IF currentPage > total_pages(platformStocks, size)
                    THEN (IF total_pages(platformStocks, size) = 0 THEN 1
                          ELSE total_pages(platformStocks, size))
                    ELSE currentPage
  /\ UNCHANGED <<fvars, avars, svars, cvars, evars, gvars, kvars, mvars, pvars, bvars, dvars>>

SelectPageSize == \E size \in SelectSizes : changePageSize(size)

(***************************************************************************)
(* Specifications                                                          *)
(***************************************************************************)
\* the form as the page first shows it: the defaults of config
FormIdle ==
  /\ windowsInput = PresetStandard
  /\ showCustomWindowInput = FALSE
  /\ windowWeights = init_weights(NoWeights, parse_windows(PresetStandard))
  /\ window_weights = NoWeights
  /\ use_window_weights = FALSE
  /\ box_threshold = 30
  /\ ma_diff_threshold = 25
  /\ volatility_threshold = 40
  /\ payload = <<>>
  /\ lastHandler = "none"

\* no chart is shown
ChartIdle ==
  /\ chart = "none"
  /\ klineDates = <<>>
  /\ markLines = <<>>
  /\ optionMarkLines = <<>>
  /\ rendered = FALSE

\* no stock is drawn
NoStock ==
  [mark_lines |-> <<>>, markLines |-> <<>>, position_analysis |-> Missing,
   decline_details |-> Missing, breakthrough_analysis |-> Missing,
   decline_analysis |-> Missing, position_details |-> Missing]
MarksIdle ==
  /\ analysisData = NoStock
  /\ generatedBy = "none"
  /\ generated = <<>>
  /\ levelsBy = "none"
  /\ supportLevels = Arr(<<>>)
  /\ resistanceLevels = Arr(<<>>)

\* no click was ignored
ButtonsIdle == ignoredClicks = 0

\* the dialog before it is first opened
DialogIdle ==
  /\ visible = FALSE
  /\ chartInstance = 0
  /\ echartsInstances = <<>>
  /\ dialogTimers = <<>>
  /\ clock = 0

\* the pagination refs as the page declares them
PagesIdle ==
  /\ currentPage = 1
  /\ pageSize = DefaultPageSize

\* FilterManager.__init__ as the invocations see it: the dict is object 1,
\* the list object 2, nothing is running
ParallelIdle ==
  /\ heap = <<<<>>, <<>>>>
  /\ results_ref = 1
  /\ log_ref = 2
  /\ inv = [t \in Invocations |-> IdleInvocation]

\* FilterManager.__init__
FilterIdle ==
  /\ filters = <<>>
  /\ df = [n \in FilterNames |-> [passed |-> TRUE]]
  /\ filter_results = <<>>
  /\ judgment_log = <<>>
  /\ ret = NoCall
  /\ call = NoArgs

AggIdle ==
  /\ series = <<>>
  /\ window_verdicts = <<>>
  /\ selection_reasons = {}
  /\ is_candidate = "unknown"

Universes == [Stocks -> Outcomes]

JobIdle == jobs = <<>>

\* the refs as the page declares them
ClientIdle ==
  /\ loading = FALSE
  /\ error = "None"
  /\ taskError = "None"
  /\ platformStocks = <<>>
  /\ taskStatus = "null"
  /\ taskProgress = 0
  /\ taskMessage = ""
  /\ currentTaskId = 0
  /\ pollingInterval = 0
  /\ timers = {}
  /\ timersCreated = 0
  /\ post = 0
  /\ responses = {}
  /\ scans = 0

\* the filter manager on one window
InitFilter ==
  /\ filters = <<>>
  /\ df \in [FilterNames -> AnalyzeResults]
  /\ filter_results = <<>>
  /\ judgment_log = <<>>
  /\ ret = NoCall
  /\ call = NoArgs
  /\ AggIdle /\ JobIdle /\ ClientIdle /\ FormIdle /\ ChartIdle /\ MarksIdle /\ ParallelIdle /\ ButtonsIdle /\ DialogIdle /\ PagesIdle
  /\ universe = [st \in Stocks |-> "candidate"]

NextFilter == AddFilter \/ SetEnabled \/ RunFiltersCall

SpecFilter == InitFilter /\ [][NextFilter]_vars

\* one stock through the configured windows
InitAgg ==
  /\ filters \in FilterConfigs
  /\ df = [n \in FilterNames |-> [passed |-> TRUE]]
  /\ filter_results = <<>>
  /\ judgment_log = <<>>
  /\ ret = NoCall
  /\ call = NoArgs
  /\ series \in [Windows -> [FilterNames -> PassFail]]
  /\ window_verdicts = <<>>
  /\ selection_reasons = {}
  /\ is_candidate = "unknown"
  /\ JobIdle /\ ClientIdle /\ FormIdle /\ ChartIdle /\ MarksIdle /\ ParallelIdle /\ ButtonsIdle /\ DialogIdle /\ PagesIdle
  /\ universe = [st \in Stocks |-> "candidate"]

NextAgg == AnalyzeWindow \/ FinishStock

SpecAgg == InitAgg /\ [][NextAgg]_vars

\* the scan jobs alone
InitJob == FilterIdle /\ AggIdle /\ JobIdle /\ ClientIdle /\ FormIdle /\ ChartIdle /\ MarksIdle /\ ParallelIdle /\ ButtonsIdle /\ DialogIdle /\ PagesIdle /\ universe \in Universes

NextJob == SubmitJob \/ JobStarts \/ JobClassifies \/ JobCompletes \/ JobFails

SpecJob == InitJob /\ [][NextJob]_vars

\* the client, the network and the server
\* the universes of the scans of the client: every stock classified alike
PollUniverses == {[st \in Stocks |-> outcome] : outcome \in Outcomes}

InitPoll == FilterIdle /\ AggIdle /\ JobIdle /\ ClientIdle /\ FormIdle /\ ChartIdle /\ MarksIdle /\ ParallelIdle /\ ButtonsIdle /\ DialogIdle /\ PagesIdle /\ universe \in PollUniverses

NextPoll ==
  \/ Fetches \/ PostAccepted \/ PostRejects
  \/ PollTicks \/ PollTickFailures \/ PollResponses \/ PollErrors
  \/ JobStarts \/ JobClassifies \/ JobCompletes \/ JobFails

SpecPoll == InitPoll /\ [][NextPoll]_vars

\* ticks keep coming while the interval is active, answers are delivered, and
\* the server keeps working on a job
ServerProgress == JobStarts \/ JobClassifies \/ JobCompletes

SpecPollFair ==
  /\ SpecPoll
  /\ SF_vars(PollTicks)
  /\ WF_vars(PollResponses)
  /\ WF_vars(PollErrors)
  /\ WF_vars(ServerProgress)
  /\ WF_vars(PostAccepted \/ PostRejects)

\* the stocks of the form's scans all analyse
FormUniverse == [s \in Stocks |-> "ok"]

\* the windows of the form up to the submission: the custom input, its
\* confirm button, the scan button
InitWindows ==
  FilterIdle /\ AggIdle /\ JobIdle /\ ClientIdle /\ FormIdle /\ ChartIdle /\ MarksIdle /\ ParallelIdle /\ ButtonsIdle /\ DialogIdle /\ PagesIdle /\ universe = FormUniverse

NextWindows ==
  \/ ShowCustomInput \/ EditInputs \/ validateCustomWindows
  \/ FetchConfigured \/ PostAccepted \/ PostRejects

SpecWindows == InitWindows /\ [][NextWindows]_vars

\* the windows and their weights: presets, the custom input, the sliders
InitWeights ==
  FilterIdle /\ AggIdle /\ JobIdle /\ ClientIdle /\ FormIdle /\ ChartIdle /\ MarksIdle /\ ParallelIdle /\ ButtonsIdle /\ DialogIdle /\ PagesIdle /\ universe = FormUniverse

NextWeights ==
  \/ SelectPresets \/ ShowCustomInput \/ EditWeightInputs \/ validateCustomWindows
  \/ ToggleWindowWeights \/ Sliders

SpecWeights == InitWeights /\ [][NextWeights]_vars

\* a chart mounted with its props, then drawn
InitCharts ==
  /\ FilterIdle /\ AggIdle /\ JobIdle /\ ClientIdle /\ FormIdle /\ MarksIdle /\ ParallelIdle /\ ButtonsIdle /\ DialogIdle /\ PagesIdle
  /\ universe = FormUniverse
  /\ chart \in {"KlineChart", "FullKlineChart"}
  /\ klineDates \in Axes
  /\ markLines \in MarkLists
  /\ optionMarkLines = <<>>
  /\ rendered = FALSE

NextCharts == setOptions \/ setOptionsFull

SpecCharts == InitCharts /\ [][NextCharts]_vars

\* a stock's analysis, then the mark lines generated from it
InitMarks ==
  /\ FilterIdle /\ AggIdle /\ JobIdle /\ ClientIdle /\ FormIdle /\ ChartIdle /\ ParallelIdle /\ ButtonsIdle /\ DialogIdle /\ PagesIdle
  /\ universe = FormUniverse
  /\ analysisData \in MarkStocks
  /\ generatedBy = "none"
  /\ generated = <<>>
  /\ levelsBy = "none"
  /\ supportLevels = Arr(<<>>)
  /\ resistanceLevels = Arr(<<>>)

NextMarks == GenerateMarkLines \/ GenerateMarkLinesCase

SpecMarks == InitMarks /\ [][NextMarks]_vars

\* a stock's analysis, then the levels read from it
InitLevels ==
  /\ FilterIdle /\ AggIdle /\ JobIdle /\ ClientIdle /\ FormIdle /\ ChartIdle /\ ParallelIdle /\ ButtonsIdle /\ DialogIdle /\ PagesIdle
  /\ universe = FormUniverse
  /\ analysisData \in LevelStocks
  /\ generatedBy = "none"
  /\ generated = <<>>
  /\ levelsBy = "none"
  /\ supportLevels = Arr(<<>>)
  /\ resistanceLevels = Arr(<<>>)

NextLevels == GetLevels \/ GetLevelsCase

SpecLevels == InitLevels /\ [][NextLevels]_vars

\* a manager with its filters registered, and invocations of run_filters
\* that run at the same time
InitParallel ==
  /\ filters \in ParallelFilters
  /\ df = [n \in FilterNames |-> [passed |-> TRUE]]
  /\ filter_results = <<>>
  /\ judgment_log = <<>>
  /\ ret = NoCall
  /\ call = NoArgs
  /\ AggIdle /\ JobIdle /\ ClientIdle /\ FormIdle /\ ChartIdle /\ MarksIdle /\ ParallelIdle /\ ButtonsIdle /\ DialogIdle /\ PagesIdle
  /\ universe = FormUniverse

NextParallel == Calls \/ ResetStates \/ Begins \/ Iterates \/ Finishes

SpecParallel == InitParallel /\ [][NextParallel]_vars

\* the thresholds of the form up to the submission
InitThresholds ==
  FilterIdle /\ AggIdle /\ JobIdle /\ ClientIdle /\ FormIdle /\ ChartIdle /\ MarksIdle /\ ParallelIdle /\ ButtonsIdle /\ DialogIdle /\ PagesIdle /\ universe = FormUniverse

NextThresholds == EditThresholds \/ FetchConfigured \/ PostAccepted \/ PostRejects

SpecThresholds == InitThresholds /\ [][NextThresholds]_vars

\* the client, the network and the server, with clicks on the scan and retry
\* buttons at any time; every stock of the scans is a candidate
InitClicks ==
  FilterIdle /\ AggIdle /\ JobIdle /\ ClientIdle /\ FormIdle /\ ChartIdle /\ MarksIdle /\ ParallelIdle /\ ButtonsIdle /\ DialogIdle /\ PagesIdle /\ universe = [st \in Stocks |-> "candidate"]

NextClicks ==
  \/ Fetches \/ FetchWhileLoading \/ PostAccepted \/ PostRejects
  \/ PollTicks \/ PollResponses
  \/ JobStarts \/ JobClassifies \/ JobCompletes

SpecClicks == InitClicks /\ [][NextClicks]_vars

\* the weights of the form up to the first scan that is submitted
InitSubmit ==
  FilterIdle /\ AggIdle /\ JobIdle /\ ClientIdle /\ FormIdle /\ ChartIdle /\ MarksIdle /\ ParallelIdle /\ ButtonsIdle /\ DialogIdle /\ PagesIdle /\ universe = FormUniverse

NextSubmit ==
  \/ /\ payload = <<>>
     /\ \/ SelectPresets \/ ShowCustomInput \/ EditWeightInputs \/ validateCustomWindows
        \/ ToggleWindowWeights \/ Sliders
  \/ FetchConfigured

SpecSubmit == InitSubmit /\ [][NextSubmit]_vars

\* the full-chart dialog opened and closed at any time
InitDialog ==
  FilterIdle /\ AggIdle /\ JobIdle /\ ClientIdle /\ FormIdle /\ ChartIdle /\ MarksIdle /\ ParallelIdle /\ ButtonsIdle /\ DialogIdle /\ PagesIdle /\ universe = FormUniverse

NextDialog == OpenFullChart \/ CloseFullChart \/ initChart \/ disposeChart \/ TimePasses

SpecDialog == InitDialog /\ [][NextDialog]_vars

\* the result list of a completed scan, as the poll callback leaves the page
ResultsShown(n) ==
  /\ loading = FALSE
  /\ error = "None"
  /\ taskError = "None"
  /\ platformStocks = [i \in 1..n |-> i]
  /\ taskStatus = "completed"
  /\ taskProgress = 100
  /\ taskMessage = "completed"
  /\ currentTaskId = 1
  /\ pollingInterval = 1
  /\ timers = {}
  /\ timersCreated = 1
  /\ post = 0
  /\ responses = {}
  /\ scans = 1

InitPages ==
  /\ FilterIdle /\ AggIdle /\ JobIdle /\ FormIdle /\ ChartIdle /\ MarksIdle /\ ParallelIdle /\ ButtonsIdle /\ DialogIdle /\ PagesIdle
  /\ universe = FormUniverse
  /\ \E n \in 0..MaxResults : ResultsShown(n)

NextPages == nextPage \/ prevPage \/ SelectPageSize

SpecPages == InitPages /\ [][NextPages]_vars

(***************************************************************************)
(* Properties of the filter manager                                        *)
(***************************************************************************)
Called == ret.judgment_log # <<>>

IsPrefix(s, t) == Len(s) <= Len(t) /\ \A i \in 1..Len(s) : s[i] = t[i]

\* an analyze result whose "passed" is not False
PassedValue(result) == ~("passed" \in DOMAIN result /\ result.passed = FALSE)

\* C1: for the filters and the window of a run_filters call, the call with
\* short_circuit on and the call with short_circuit off return the same
\* is_platform; the short-circuit run's filter_results is a prefix of the
\* full run's (only completeness differs).
C1_ShortCircuitSameVerdict ==
  Called =>
    LET short == run_filters(call.filters, df, [short_circuit |-> TRUE])
        full == run_filters(call.filters, df, [short_circuit |-> FALSE])
        mine == IF get_short_circuit(call.kwargs) THEN short ELSE full
        other == IF get_short_circuit(call.kwargs) THEN full ELSE short
    IN /\ ret = mine
       /\ ret.is_platform = other.is_platform
       /\ IsPrefix(short.filter_results, full.filter_results)

\* a short-circuit run that left filters unevaluated which the full run evaluates
C1_Witness ==
  /\ Called
  /\ get_short_circuit(call.kwargs)
  /\ Len(ret.filter_results) <
       Len(run_filters(call.filters, df, [short_circuit |-> FALSE]).filter_results)

DisabledOne(before, after) ==
  /\ Len(before) = Len(after)
  /\ \E i \in 1..Len(before) :
       /\ before[i].enabled /\ ~after[i].enabled
       /\ after[i].name = before[i].name
       /\ \A j \in 1..Len(before) : j # i => after[j] = before[j]

NeverEvaluated(r, name) ==
  \A k \in 1..Len(r.filter_results) : r.filter_results[k].name # name

\* C2: a run_filters that returned is_platform = true still returns true when
\* it is run again on the same window after one filter was disabled; a disabled
\* filter is never evaluated (it has no entry in filter_results).
C2_DisablingNeverFails ==
  /\ [](Called =>
          \A i \in 1..Len(call.filters) :
            ~call.filters[i].enabled => NeverEvaluated(ret, call.filters[i].name))
  /\ [][(Called /\ ret.is_platform /\ DisabledOne(call.filters, call'.filters))
          => ret'.is_platform]_vars

\* a passing run in which a disabled filter would have failed the window
C2_Witness ==
  /\ Called
  /\ ret.is_platform
  /\ \E i \in 1..Len(call.filters) :
       /\ ~call.filters[i].enabled
       /\ ~PassedValue(df[call.filters[i].name])
  /\ \E i \in 1..Len(call.filters) : call.filters[i].enabled

\* C3: the is_platform a run_filters call returns is the AND of the passed
\* values of the enabled filters (true when none is enabled).
C3_VerdictIsAndOfEnabled ==
  Called =>
    (ret.is_platform <=>
       \A i \in 1..Len(call.filters) :
         call.filters[i].enabled => PassedValue(df[call.filters[i].name]))

\* a full run in which an enabled filter fails and a later enabled filter passes
C3_Witness ==
  /\ Called
  /\ ~get_short_circuit(call.kwargs)
  /\ ~ret.is_platform
  /\ \E i, j \in 1..Len(call.filters) :
       /\ i < j
       /\ call.filters[i].enabled /\ ~PassedValue(df[call.filters[i].name])
       /\ call.filters[j].enabled /\ PassedValue(df[call.filters[j].name])

(***************************************************************************)
(* Properties of the window aggregation                                    *)
(***************************************************************************)
WindowPasses(w) ==
  \A i \in 1..Len(filters) :
    filters[i].enabled => PassedValue(series[w][filters[i].name])

\* C4: a stock is a candidate if and only if at least one configured window's
\* verdict has aggregate passed = true.
C4_CandidateIffSomeWindowPasses ==
  is_candidate # "unknown" =>
    /\ is_candidate = "yes" <=> \E w \in Windows : window_verdicts[w].passed
    /\ \A w \in Windows : window_verdicts[w].passed <=> WindowPasses(w)
    /\ selection_reasons = {w \in Windows : window_verdicts[w].passed}

\* a candidate with one passing and one failing window
C4_Witness ==
  /\ is_candidate = "yes"
  /\ \E w \in Windows : window_verdicts[w].passed
  /\ \E w \in Windows : ~window_verdicts[w].passed

(***************************************************************************)
(* Properties of the scan / poll flow                                      *)
(***************************************************************************)
Terminal == {"completed", "failed"}
InProgress == {"pending", "running"}

TimerActive == \E t \in timers : t.id = pollingInterval

\* C5: between a submission and its terminal state the status the client
\* stores follows pending -> running -> completed | failed: it takes one of the
\* four values (null when the submission was rejected), never goes from running
\* back to pending, and reaches a terminal status only from running.
C5_ClientStatusPath ==
  [][/\ taskStatus' \in {"null", "pending", "running", "completed", "failed"}
     /\ taskStatus = "pending" => taskStatus' \in {"pending", "running", "null"}
     /\ taskStatus = "running" => taskStatus' \in {"running", "completed", "failed"}]_vars

\* C6: while a scan is in progress, the delivery of a poll response of that
\* scan never lowers taskProgress.
C6_ProgressNonDecreasing ==
  [][\A r \in responses :
       (/\ responses' = responses \ {r}
        /\ r.kind = "data"
        /\ r.data.task_id = currentTaskId
        /\ loading /\ post = 0)
       => taskProgress' >= taskProgress]_vars

\* C7: once the client has stored a terminal status, taskStatus, platformStocks
\* and taskError stay as they are until the user submits a new scan.
C7_TerminalImmutable ==
  [][(taskStatus \in Terminal /\ scans' = scans)
       => UNCHANGED <<taskStatus, platformStocks, taskError>>]_vars

\* C8: a scan whose submission was accepted leads to the client showing a
\* terminal status with loading = false and no active polling timer, and the
\* client never stays in pending / running forever.
C8_NoSilentHang ==
  /\ (loading /\ post = 0)
       ~> (taskStatus \in Terminal /\ ~loading /\ ~TimerActive)
  /\ []<>(taskStatus \notin InProgress)

\* C9: taskError is set only in status failed, platformStocks is non-empty
\* only in status completed.
C9_ErrorAndResultMatchStatus ==
  /\ taskError # "None" => taskStatus = "failed"
  /\ platformStocks # <<>> => taskStatus = "completed"

(***************************************************************************)
(* Properties of the scan job                                              *)
(***************************************************************************)

\* C10: a stock whose classification raises does not fail the job: a job fails
\* only on a job-fatal error, and a completed job has no error and holds as
\* result exactly the candidates of the universe, the raising stocks skipped.
C10_StockErrorsDoNotFailJob ==
  \A id \in JobIds :
    LET job == jobs[id] IN
    /\ job.status = "failed" => job.error = "fatal"
    /\ job.status # "failed" => job.error = "None"
    /\ job.skipped = {st \in 1..job.processed : universe[st] = "error"}
    /\ job.status = "completed" =>
         /\ "error" \notin DOMAIN job_snapshot(id, job)
         /\ SeqRange(job.result) = {st \in Stocks : universe[st] = "candidate"}
         /\ Len(job.result) = Cardinality(SeqRange(job.result))
         /\ SeqRange(job.result) \cap job.skipped = {}

\* a completed scan in which one stock raised and every other stock is a candidate
C10_Witness ==
  \E id \in JobIds :
    /\ jobs[id].status = "completed"
    /\ Cardinality(jobs[id].skipped) = 1
    /\ Len(jobs[id].result) = NumStocks - 1

\* an entry that is a window size: a number, and a positive one
IsWindowSize(w) == "lead" \in DOMAIN w /\ ~w.junk /\ w.lead > 0
HasInvalidEntry(input) == \E i \in 1..Len(input) : ~IsWindowSize(input[i])
\* the step of fetchPlatformStocks up to its validation or its POST
FetchStep == scans' = scans + 1
Rejected == post' = post /\ payload' = payload /\ error' # "None" /\ taskStatus' = "null"

\* C11: whenever the windows input holds at least one invalid entry (zero,
\* negative, or not a number), fetchPlatformStocks sends no POST, sets error,
\* and leaves taskStatus null and loading false.
C11_InvalidWindowRejected ==
  [][(FetchStep /\ HasInvalidEntry(windowsInput)) => (Rejected /\ ~loading')]_vars

InUnitInterval(t) == 0 < t /\ t < 100

\* C12: whenever one of box_threshold, ma_diff_threshold, volatility_threshold
\* lies outside the open interval (0, 1), fetchPlatformStocks sends no POST,
\* reports an error and leaves taskStatus null.
C12_ThresholdOutOfRangeRejected ==
  [][(FetchStep /\ ~(InUnitInterval(box_threshold) /\ InUnitInterval(ma_diff_threshold)
                      /\ InUnitInterval(volatility_threshold)))
       => Rejected]_vars

\* the handler that ran last called updateWindowWeights
WeightsUpdated ==
  lastHandler \in {"selectWindowPreset", "validateCustomWindows", "updateWindowWeights"}
ConfiguredWindows == SeqRange(parsedWindows)
RawTotal == sum_weights(windowWeights, ConfiguredWindows)
RECURSIVE sum_num(_, _)
sum_num(weights, keys) ==
  IF keys = {} THEN 0
  ELSE LET k == CHOOSE x \in keys : TRUE
       IN weights[k].num + sum_num(weights, keys \ {k})
\* the fractions of weights have one denominator and add up to 1
SumsToOne(weights) ==
  \E k \in DOMAIN weights :
    /\ \A j \in DOMAIN weights : weights[j].den = weights[k].den
    /\ sum_num(weights, DOMAIN weights) = weights[k].den

\* C13: after updateWindowWeights, when the configured windows have a positive
\* total weight, config.window_weights gives each configured window its raw
\* weight divided by the total, no weight is negative, and the weights sum to 1.
C13_WeightsNormalized ==
  (WeightsUpdated /\ RawTotal > 0) =>
    /\ DOMAIN window_weights = ConfiguredWindows
    /\ \A w \in ConfiguredWindows :
         /\ window_weights[w].num = windowWeights[w]
         /\ window_weights[w].den = RawTotal
         /\ window_weights[w].num >= 0 /\ window_weights[w].den > 0
    /\ SumsToOne(window_weights)

\* a slider was moved, the configured windows weigh differently, and a window
\* that is no longer configured still has a weight
C13_Witness ==
  /\ lastHandler = "updateWindowWeights"
  /\ RawTotal > 0
  /\ \E v, w \in ConfiguredWindows : windowWeights[v] # windowWeights[w] /\ windowWeights[v] > 0
  /\ \E k \in DOMAIN windowWeights \ ConfiguredWindows : windowWeights[k] > 0
  /\ DOMAIN window_weights = ConfiguredWindows

\* C14: after updateWindowWeights, when the total weight of the n configured
\* windows is 0, each configured window has weight 1/n.
C14_ZeroTotalEqualWeights ==
  (WeightsUpdated /\ RawTotal = 0) =>
    /\ DOMAIN window_weights = ConfiguredWindows
    /\ \A w \in ConfiguredWindows :
         /\ window_weights[w].den > 0
         /\ window_weights[w].num * Cardinality(ConfiguredWindows) = window_weights[w].den

DatedMarks == {i \in 1..Len(markLines) : markLines[i].type = "vertical" /\ markLines[i].date # EmptyStr}
VerticalLines == {i \in 1..Len(optionMarkLines) : optionMarkLines[i].axis = "x"}
ValidIndex(i) == 0 <= i /\ i < Len(klineDates)

\* C15: for a non-empty date axis and any target date string, garbage
\* included, findDateIndex (of either chart) returns an index i with
\* 0 <= i < axis length, never -1.
C15_FindDateIndexValid ==
  (rendered /\ klineDates # <<>>) =>
    \A i \in DatedMarks :
      /\ ValidIndex(findDateIndex(markLines[i].date, klineDates))
      /\ ValidIndex(findDateIndexFull(markLines[i].date, klineDates))

\* C16: with an empty date axis setOptions emits no vertical mark line for
\* any date mark, and with a non-empty axis every mark that has a date gets
\* its vertical line.
C16_DroppedIffAxisEmpty ==
  rendered =>
    /\ klineDates = <<>> => VerticalLines = {}
    /\ klineDates # <<>> => Cardinality(VerticalLines) = Cardinality(DatedMarks)

\* the high_date the Historical Position details report, "" if none
PositionHighDate ==
  IF analysisData.position_analysis # Missing /\ The(analysisData.position_analysis).details # Missing
  THEN The(The(analysisData.position_analysis).details).high_date
  ELSE ""
\* the high_date the Rapid Decline details report, "" if none
DeclineHighDate ==
  IF analysisData.decline_details # Missing THEN The(analysisData.decline_details).high_date ELSE ""
HighPointMarks(date) ==
  {i \in 1..Len(generated) : generated[i].date = date /\ generated[i].text = "high point"}

\* C17: when the Historical Position details and the Rapid Decline details
\* report the same high_date, generateMarkLines (of the App and of CaseDetail)
\* emits exactly one high-point mark for that date.
C17_OneHighPointMark ==
  (generatedBy # "none" /\ PositionHighDate # "" /\ PositionHighDate = DeclineHighDate
     /\ analysisData.mark_lines = <<>> /\ analysisData.markLines = <<>>)
    => Cardinality(HighPointMarks(PositionHighDate)) = 1

\* the levels field that the stock's own box_analysis holds
BoxLevels(field) == The(The(analysisData).box_analysis)[field]
HasBoxAnalysis == analysisData # Missing /\ The(analysisData).box_analysis # Missing
PassedOn(field, returned) ==
  /\ returned.type = "array"
  /\ HasBoxAnalysis =>
       /\ BoxLevels(field).type = "number" => returned.items = <<BoxLevels(field).value>>
       /\ BoxLevels(field).type = "array" => returned.items = BoxLevels(field).items

\* C18: for every stock or analysis object getSupportLevels and
\* getResistanceLevels return a list; a single numeric level of box_analysis
\* comes back as a one-element list, and a list comes back with the same
\* values in the same order.
C18_LevelsAreLists ==
  levelsBy # "none" =>
    /\ PassedOn("support_levels", supportLevels)
    /\ PassedOn("resistance_levels", resistanceLevels)

\* C19: the delivery of a poll response of a task that a newer submission has
\* superseded changes none of taskStatus, taskProgress, taskMessage, taskError,
\* loading and platformStocks, and leaves the polling timers as they are.
C19_StaleResponseIgnored ==
  [][\A r \in responses :
       (/\ responses' = responses \ {r}
        /\ r.kind = "data"
        /\ r.data.task_id # currentTaskId)
       => UNCHANGED <<taskStatus, taskProgress, taskMessage, taskError,
                      loading, platformStocks, timers>>]_vars

OwnEntries(object, t) == \A i \in 1..Len(object) : object[i].by = t

\* C20: the judgment_log and the filter_results that a run_filters invocation
\* has returned hold only entries written by that invocation, however the
\* invocations on the manager interleave.
C20_ReturnsOwnEntries ==
  \A t \in Invocations :
    inv[t].pc = "done" =>
      /\ OwnEntries(heap[inv[t].returned.judgment_log], t)
      /\ OwnEntries(heap[inv[t].returned.filter_results], t)

(***************************************************************************)
(* Properties of the submission                                            *)
(***************************************************************************)
\* a step of fetchPlatformStocks that sends the POST
Submitted == scans' = scans + 1 /\ post' = post + 1
\* the step in which fetchPlatformStocks goes on after the await of the POST
PostAnswered == post' = post - 1
TimerStarted == timers' \ timers # {}

FirstFailure(fs) ==
  LET fails(i) == fs[i].enabled /\ ~PassedValue(df[fs[i].name])
  IN IF \E i \in 1..Len(fs) : fails(i)
     THEN CHOOSE i \in 1..Len(fs) : fails(i) /\ \A j \in 1..(i - 1) : ~fails(j)
     ELSE 0

\* the entries of filter_results for the enabled filters of fs, in order
ResultsOf(fs) ==
  LET evaluated == SelectSeq(fs, is_enabled)
  IN [k \in 1..Len(evaluated) |->
        [name |-> evaluated[k].name, result |-> df[evaluated[k].name]]]

\* C22: with short_circuit on, after the first enabled filter that fails no
\* later registered filter is evaluated: filter_results holds exactly the
\* enabled filters up to and including that failure, in registration order,
\* and the judgment log has no line of a later filter but records, right
\* after the failing filter's line, that the rest was skipped by the short
\* circuit.
C22_ShortCircuitSkipsTheRest ==
  (Called /\ get_short_circuit(call.kwargs) /\ FirstFailure(call.filters) # 0) =>
    LET fs == call.filters
        i == FirstFailure(fs)
        log == ret.judgment_log
        n == Len(log)
    IN /\ ret.filter_results = ResultsOf(SubSeq(fs, 1, i))
       /\ \A j \in (i + 1)..Len(fs) :
            /\ NeverEvaluated(ret, fs[j].name)
            /\ \A k \in 1..n : log[k].name # fs[j].name
       /\ n >= 4
       /\ log[n - 2] = LogLine(fs[i].name, "not passed")
       /\ log[n - 1] = LogLine(0, "early exit (short circuit)")
       /\ log[n] = LogLine(0, "final: not platform")

\* a short-circuit run that stopped at a failing filter registered after a
\* passing one, with an enabled filter left unevaluated
C22_Witness ==
  /\ Called
  /\ get_short_circuit(call.kwargs)
  /\ FirstFailure(call.filters) = 2
  /\ Len(call.filters) = 3
  /\ call.filters[1].enabled
  /\ call.filters[3].enabled
  /\ Len(ret.filter_results) = 2

(***************************************************************************)
(* Properties of the date matching                                         *)
(***************************************************************************)
\* the places (from 1) of the axis that match the date string s in a tier:
\* 1 the same date, 2 the same year and month, 3 the same year, 4 the
\* smallest distance in time
TierMatches(tier, s, dates) ==
  LET canonical == s.kind = "date" /\ s.sep = "-"
      days(x) == timestamp(date_part(x)).value
      dist(i) == IF days(dates[i]) >= days(s) THEN days(dates[i]) - days(s)
                 ELSE days(s) - days(dates[i])
      all == 1..Len(dates)
  IN IF s.kind # "date" THEN {}
     ELSE IF tier = 1
     THEN {i \in all : canonical /\ dates[i].y = s.y /\ dates[i].m = s.m /\ dates[i].d = s.d}
     ELSE IF tier = 2
     THEN {i \in all : canonical /\ dates[i].y = s.y /\ dates[i].m = s.m}
     ELSE IF tier = 3
     THEN {i \in all : dates[i].y = s.y}
     ELSE {i \in all : \A j \in all : dist(j) >= dist(i)}

Tiers == 1..4
\* the highest-priority tier that has a match on the axis, 0 if none has
BestTier(s, dates) ==
  IF \E t \in Tiers : TierMatches(t, s, dates) # {}
  THEN CHOOSE t \in Tiers :
         /\ TierMatches(t, s, dates) # {}
         /\ \A u \in 1..(t - 1) : TierMatches(u, s, dates) = {}
  ELSE 0

\* the index (from 0) of the first match of the best tier, -1 without one
TierIndex(s, dates) ==
  IF BestTier(s, dates) = 0 THEN -1
  ELSE LET matches == TierMatches(BestTier(s, dates), s, dates)
       IN (CHOOSE i \in matches : \A j \in matches : i <= j) - 1

\* C23: findDateIndex (of either chart) applies its tiers in strict priority
\* order, exact date, same year-month, same year, nearest in time: it returns
\* the first axis index of the highest-priority tier that matches anywhere on
\* the axis, each chart on the date string it compares with (KlineChart the
\* date part with '/' rewritten, FullKlineChart the date part).
C23_TiersInPriorityOrder ==
  rendered =>
    \A i \in DatedMarks :
      /\ findDateIndex(markLines[i].date, klineDates)
           = TierIndex(slash_to_dash(date_part(markLines[i].date)), klineDates)
      /\ findDateIndexFull(markLines[i].date, klineDates)
           = TierIndex(date_part(markLines[i].date), klineDates)

\* a drawn mark whose date is not on the axis, whose year and month match a
\* later date of the axis than the first date of its year
C23_Witness ==
  /\ rendered
  /\ \E i \in DatedMarks :
       LET s == markLines[i].date IN
       /\ TierMatches(1, s, klineDates) = {}
       /\ TierMatches(2, s, klineDates) # {}
       /\ \E j \in TierMatches(3, s, klineDates) :
            \A k \in TierMatches(2, s, klineDates) : j < k
       /\ optionMarkLines[1].at = TierIndex(s, klineDates)
       /\ optionMarkLines[1].at = 1

\* the calendar date of a date string written as 'YYYY-MM-DD'
Canonical(s) == DateStr(s.y, s.m, s.d)

\* C24: on the same axis a mark date written with a time of day or with '/'
\* separators resolves to the same index as the same calendar date written
\* 'YYYY-MM-DD', in KlineChart's and in FullKlineChart's findDateIndex, and
\* the two resolve every mark date to the same index.
C24_FormatsResolveAlike ==
  rendered =>
    \A i \in DatedMarks :
      LET s == markLines[i].date IN
      /\ findDateIndex(s, klineDates) = findDateIndexFull(s, klineDates)
      /\ s.kind = "date" =>
           /\ findDateIndex(s, klineDates) = findDateIndex(Canonical(s), klineDates)
           /\ findDateIndexFull(s, klineDates) = findDateIndexFull(Canonical(s), klineDates)

(***************************************************************************)
(* Properties of the loading guard                                         *)
(***************************************************************************)
\* the scans in progress: the POST awaited and the jobs the server works on
ActiveScans ==
  Cardinality({id \in JobIds : jobs[id].status \in InProgress})
    + post

\* C25: a call of fetchPlatformStocks while loading is true sends no POST and
\* changes none of taskStatus, taskProgress, platformStocks and currentTaskId;
\* at most one scan and at most one polling timer are active at any time.
C25_OneScanAtATime ==
  /\ [][ignoredClicks' # ignoredClicks
          => UNCHANGED <<post, scans, taskStatus, taskProgress, platformStocks,
                         currentTaskId, timers>>]_vars
  /\ [](Cardinality(timers) <= 1)
  /\ [](ActiveScans <= 1)

\* C26: loading is true exactly when taskStatus is pending or running, and
\* while taskStatus is pending or running after the task id was received a
\* polling timer is active.
C26_LoadingMatchesStatus ==
  /\ loading <=> taskStatus \in InProgress
  /\ (taskStatus \in InProgress /\ post = 0) => TimerActive

(***************************************************************************)
(* Properties of the submitted weights                                     *)
(***************************************************************************)
\* C27: a scan submitted with use_window_weights on carries window_weights
\* whose keys are exactly the submitted windows and whose values sum to 1,
\* whatever presets, custom window edits (confirmed or not), slider moves and
\* toggles of the checkbox came before.
C27_SubmittedWeightsMatchWindows ==
  \A i \in 1..Len(payload) :
    payload[i].use_window_weights =>
      /\ DOMAIN payload[i].window_weights = SeqRange(payload[i].windows)
      /\ SumsToOne(payload[i].window_weights)

(***************************************************************************)
(* Properties of the generated mark lines                                  *)
(***************************************************************************)
\* the events that generateMarkLines derives from the analysis details
DetailEvents == {"high point", "decline start", "platform start"}

\* C28: for a stock without mark lines of the backend, generateMarkLines (of
\* the App and of CaseDetail) returns each of the events high point, decline
\* start and platform start at most once per date.
C28_NoEventTwice ==
  (generatedBy # "none" /\ analysisData.mark_lines = <<>> /\ analysisData.markLines = <<>>)
    => \A i, j \in 1..Len(generated) :
         (i < j /\ generated[i].text \in DetailEvents /\ generated[i].text = generated[j].text)
           => generated[i].date # generated[j].date

(***************************************************************************)
(* Properties of the full-chart dialog                                     *)
(***************************************************************************)
\* the init callback of the latest opening has run: callbacks run in the
\* order they are due, so no init callback is pending
InitTimerFired == \A i \in 1..Len(dialogTimers) : dialogTimers[i].kind # "init"

\* C29: whenever the dialog is visible and the init timer of its latest
\* opening has fired, chartInstance refers to a live echarts instance: the
\* delayed dispose of an earlier close never disposes the instance created
\* for a later opening.
C29_VisibleChartIsLive ==
  (visible /\ InitTimerFired) =>
    /\ chartInstance # 0
    /\ echartsInstances[chartInstance] = "live"

(***************************************************************************)
(* Properties of the pagination                                            *)
(***************************************************************************)
\* the places (from 1) in platformStocks of the stocks that page shows
PagePlaces(page) ==
  LET start == slice_start(page, pageSize)
      end == slice_end(start, pageSize)
  IN {i \in 1..Len(platformStocks) : start < i /\ i <= end}

\* C30: for a page size chosen in the select and every page of 1..totalPages,
\* paginatedStocks holds at most pageSize stocks, and the pages partition
\* platformStocks in order: every stock is on one page and on no other.
C30_PagesPartitionResults ==
  pageSize \in SelectSizes =>
    /\ Len(paginatedStocks) <= pageSize.value
    /\ \A page \in 1..totalPages :
         /\ Len(paginated_stocks(platformStocks, page, pageSize)) <= pageSize.value
         /\ paginated_stocks(platformStocks, page, pageSize)
              = [k \in 1..Cardinality(PagePlaces(page)) |->
                   platformStocks[slice_start(page, pageSize) + k]]
    /\ \A i \in 1..Len(platformStocks) :
         Cardinality({page \in 1..totalPages : i \in PagePlaces(page)}) = 1

====
